---- MODULE Spec2Model ----
(***************************************************************************)
(* Model of the sim-os scheduler simulation:                               *)
(*   - Simulations::Scheduler<RoundRobinPolicy>  (simulations/Scheduler.hpp)*)
(*   - the spawn_process built-in of the scenario interpreter              *)
(*     (lang/Interpreter.hpp), which is how a script inserts processes.    *)
(* A Process object lives in `heap` (one entry per make_shared call, in    *)
(* creation order); the queues hold indices into `heap`, 0 is nullptr.     *)
(***************************************************************************)
EXTENDS Integers, Sequences, FiniteSets, TLC

\* ------------------------------------------------------------------ bounds
MaxThreads  == 2    \* threads_count is drawn from 1..MaxThreads
MaxProcs    == 3    \* number of spawn_process calls that insert a process
MaxTimer    == 7    \* step() is taken while timer < MaxTimer
MaxPid      == 2    \* pids passed by the script: 1..MaxPid
MaxArrival  == 1    \* arrivals passed by the script: 0..MaxArrival
MaxQuantum  == 1    \* the policy is constructed with quantum MaxQuantum
MaxSpawnTimer == 1  \* spawn_process is called while timer <= MaxSpawnTimer
MaxDriverArrival == 5  \* the driver's scripts pass arrival 0 or MaxDriverArrival
MaxSourceLen == 3   \* every text of up to MaxSourceLen characters is a script
MaxRange    == 3    \* the loops run over a..b with a, b in 0..MaxRange
MaxBody     == 2    \* a loop body holds up to MaxBody calls
MaxLimit    == 2    \* the scripts set each of the four limits to 0 or MaxLimit
MaxDraws    == 5    \* the random device repeats after MaxDraws draws
MaxRaw      == 2    \* and draws from 0..MaxRaw
MaxQueued   == 4    \* processes of the runs that queue several processes per core

\* ------------------------------------------------------- program constants
MAX_THREADS == 9
\* std::numeric_limits<std::size_t>::max(), as far as the integers here reach
SIZE_MAX == 2147483647
DefaultQuantum == 5             \* RoundRobinPolicy::quantum as the programs build it

NULL  == 0                      \* nullptr in a running slot
NONE  == <<>>                   \* std::nullopt
Some(v) == <<v>>                \* std::optional holding v
has_value(o) == o # NONE
value(o) == o[1]

\* `const auto v = ...;` followed by the statements F that use v
Bind(v, F(_)) == F(v)

Slots == 0 .. (MAX_THREADS - 1) \* indices of the std::array members

\* ------------------------------------------------------------ sequences
RemoveAt(seq, k) == [j \in 1 .. (Len(seq) - 1) |-> IF j < k THEN seq[j] ELSE seq[j + 1]]
Range(seq) == {seq[k] : k \in DOMAIN seq}
PushFront(seq, e) == <<e>> \o seq

\* ------------------------------------------------------------ Util / Os
UpperCase == <<"A","B","C","D","E","F","G","H","I","J","K","L","M",
               "N","O","P","Q","R","S","T","U","V","W","X","Y","Z">>
LowerCase == <<"a","b","c","d","e","f","g","h","i","j","k","l","m",
               "n","o","p","q","r","s","t","u","v","w","x","y","z">>

\* std::tolower on one character
tolower(c) ==
    IF \E k \in DOMAIN UpperCase : UpperCase[k] = c
    THEN LowerCase[CHOOSE k \in DOMAIN UpperCase : UpperCase[k] = c]
    ELSE c

\* Util::to_lower: a string is a sequence of characters
to_lower(str) == [k \in DOMAIN str |-> tolower(str[k])]

\* Os::event_kind_try_from_str
event_kind_try_from_str(str) ==
    LET lowered == to_lower(str)
    IN  IF lowered = <<"c","p","u">> THEN Some("Cpu")
        ELSE IF lowered = <<"i","o">> THEN Some("Io")
        ELSE NONE

\* Os::Event
Event(kind, duration, resource_usage) ==
    [kind |-> kind, duration |-> duration, resource_usage |-> resource_usage]

\* Os::Process as built by make_shared<Os::Process>(name, pid, arrival, events)
Process(name, pid, arrival, events) ==
    [name |-> name, pid |-> pid, arrival |-> arrival, events |-> events,
     start_time |-> NONE, finish_time |-> NONE]

VARIABLES
    threads_count,            \* Scheduler::threads_count
    quantum,                  \* RoundRobinPolicy::quantum
    heap,                     \* the Os::Process objects, by creation order
    running,                  \* Scheduler::running
    processes,                \* Scheduler::processes  (the arrivals)
    waiting,                  \* Scheduler::waiting
    ready,                    \* Scheduler::ready
    timer,                    \* Scheduler::timer
    cpu_usage,                \* Scheduler::cpu_usage  (percent)
    next_thread,              \* Scheduler::next_thread
    throughput,               \* Scheduler::throughput as <<numerator, denominator>>
    previous_finished_count,  \* Scheduler::previous_finished_count
    finished,                 \* Scheduler::finished
    status,                   \* "ok", or where control is stuck / aborted
    spawned,                  \* history: events of each process when inserted
    ticks,                    \* history: timers at which each process was decremented
    rejected,                 \* history: processes sidetrack_processes refused
    placement,                \* history: core and tick of insertion, tick and queue of admission
    last_op,                  \* history: the operation that produced this state
    max_processes,            \* Scheduler::max_processes
    max_events_per_process,   \* Scheduler::max_events_per_process
    max_single_event_duration,\* Scheduler::max_single_event_duration
    max_arrival_time,         \* Scheduler::max_arrival_time
    spawned_pids,             \* the static spawned_pids of spawn_random_process_builtin
    file_content,             \* the script text handed to Interpreter::eval
    tokens,                   \* what Lexer::lex made of it
    ast,                      \* what Parser::parse made of the tokens
    evaluated,                \* the value Interpreter::eval returned, once it has
    trace                     \* history: the expressions evaluated, as they returned

vars == <<threads_count, quantum, heap, running, processes, waiting, ready, timer,
          cpu_usage, next_thread, throughput, previous_finished_count, finished,
          status, spawned, ticks, rejected, placement, last_op,
          max_processes, max_events_per_process, max_single_event_duration,
          max_arrival_time, spawned_pids, file_content, tokens, ast, evaluated, trace>>

\* the variables of the script front end
front_end == <<spawned_pids, file_content, tokens, ast, evaluated, trace>>

\* The simulation object (and the history kept with it) as one record, so that
\* the methods below can be written as functions from state to state.
Sim ==
    [threads_count |-> threads_count, quantum |-> quantum, heap |-> heap,
     running |-> running, processes |-> processes, waiting |-> waiting,
     ready |-> ready, timer |-> timer, cpu_usage |-> cpu_usage,
     next_thread |-> next_thread, throughput |-> throughput,
     previous_finished_count |-> previous_finished_count, finished |-> finished,
     status |-> status, spawned |-> spawned, ticks |-> ticks, rejected |-> rejected,
     placement |-> placement,
     max_processes |-> max_processes,
     max_events_per_process |-> max_events_per_process,
     max_single_event_duration |-> max_single_event_duration,
     max_arrival_time |-> max_arrival_time]

\* the simulation object s becomes the state
InstallSim(s, op) ==
    /\ threads_count' = s.threads_count
    /\ quantum' = s.quantum
    /\ heap' = s.heap
    /\ running' = s.running
    /\ processes' = s.processes
    /\ waiting' = s.waiting
    /\ ready' = s.ready
    /\ timer' = s.timer
    /\ cpu_usage' = s.cpu_usage
    /\ next_thread' = s.next_thread
    /\ throughput' = s.throughput
    /\ previous_finished_count' = s.previous_finished_count
    /\ finished' = s.finished
    /\ status' = s.status
    /\ spawned' = s.spawned
    /\ ticks' = s.ticks
    /\ rejected' = s.rejected
    /\ placement' = s.placement
    /\ max_processes' = s.max_processes
    /\ max_events_per_process' = s.max_events_per_process
    /\ max_single_event_duration' = s.max_single_event_duration
    /\ max_arrival_time' = s.max_arrival_time
    /\ last_op' = op

\* a call on the simulation object alone
Install(s, op) == InstallSim(s, op) /\ UNCHANGED front_end

\* ------------------------------------------------------------- Scheduler

\* Scheduler::complete without the test of the arrivals
complete_ignores_arrivals(s) ==
    \A i \in Slots : s.running[i] = NULL /\ s.ready[i] = <<>> /\ s.waiting[i] = <<>>

\* Scheduler::complete
complete(s) ==
    LET any_running   == \E i \in Slots : s.running[i] # NULL
        any_processes == \E i \in Slots : s.processes[i] # <<>>
        any_ready     == \E i \in Slots : s.ready[i] # <<>>
        any_waiting   == \E i \in Slots : s.waiting[i] # <<>>
    IN  ~any_running /\ ~any_processes /\ ~any_ready /\ ~any_waiting

\* Scheduler::ensure_pid_is_unique
ensure_pid_is_unique(s, thread_idx, pid) ==
    /\ (s.running[thread_idx] = NULL \/ s.heap[s.running[thread_idx]].pid # pid)
    /\ ~ \E k \in DOMAIN s.ready[thread_idx] : s.heap[s.ready[thread_idx][k]].pid = pid
    /\ ~ \E k \in DOMAIN s.waiting[thread_idx] : s.heap[s.waiting[thread_idx][k]].pid = pid

\* a failed assert(): control never returns to the caller
assert_fail(s, which) == [s EXCEPT !.status = which]

\* Scheduler::dispatch_process_by_first_event, with every process sent to ready
dispatch_always_ready(s, thread_idx, p) ==
    IF s.heap[p].events = <<>> THEN assert_fail(s, "assert_events")
    ELSE [s EXCEPT
            !.heap[p].start_time = IF ~has_value(@) THEN Some(s.timer) ELSE NONE,
            !.ready[thread_idx] = Append(@, p)]

\* Scheduler::dispatch_process_by_first_event, pushing to the queues of core 0
dispatch_to_core_zero(s, thread_idx, p) ==
    IF s.heap[p].events = <<>> THEN assert_fail(s, "assert_events")
    ELSE IF Head(s.heap[p].events).kind = "Cpu"
    THEN [s EXCEPT
            !.heap[p].start_time = IF ~has_value(@) THEN Some(s.timer) ELSE NONE,
            !.ready[0] = Append(@, p)]
    ELSE [s EXCEPT !.waiting[0] = Append(@, p)]

\* Scheduler::dispatch_process_by_first_event, stamping the tick that follows
dispatch_stamps_next_tick(s, thread_idx, p) ==
    IF s.heap[p].events = <<>> THEN assert_fail(s, "assert_events")
    ELSE IF Head(s.heap[p].events).kind = "Cpu"
    THEN [s EXCEPT
            !.heap[p].start_time = IF ~has_value(@) THEN Some(s.timer + 1) ELSE NONE,
            !.ready[thread_idx] = Append(@, p)]
    ELSE [s EXCEPT !.waiting[thread_idx] = Append(@, p)]

\* Scheduler::dispatch_process_by_first_event with push_front on the ready queue
dispatch_pushes_front(s, thread_idx, p) ==
    IF s.heap[p].events = <<>> THEN assert_fail(s, "assert_events")
    ELSE IF Head(s.heap[p].events).kind = "Cpu"
    THEN [s EXCEPT
            !.heap[p].start_time = IF ~has_value(@) THEN Some(s.timer) ELSE NONE,
            !.ready[thread_idx] = PushFront(@, p)]
    ELSE [s EXCEPT !.waiting[thread_idx] = Append(@, p)]

\* Scheduler::dispatch_process_by_first_event
dispatch_process_by_first_event(s, thread_idx, p) ==
    IF s.heap[p].events = <<>> THEN assert_fail(s, "assert_events")
    ELSE LET first_event == Head(s.heap[p].events)
         IN  IF first_event.kind = "Cpu"
             THEN [s EXCEPT
                     !.heap[p].start_time = IF ~has_value(@) THEN Some(s.timer) ELSE NONE,
                     !.ready[thread_idx] = Append(@, p)]
             ELSE [s EXCEPT !.waiting[thread_idx] = Append(@, p)]

\* history: the <<queue, core>> pairs where process p is queued in state s
QueuesHolding(s, p) ==
    { <<"ready", i>> : i \in { j \in Slots : p \in Range(s.ready[j]) } }
      \cup { <<"waiting", i>> : i \in { j \in Slots : p \in Range(s.waiting[j]) } }

\* Scheduler::sidetrack_processes skipping only arrivals still in the future
RECURSIVE sidetrack_admits_overdue(_, _, _)
sidetrack_admits_overdue(s, thread_idx, it) ==
    IF s.status # "ok" \/ it > Len(s.processes[thread_idx]) THEN s
    ELSE LET p == s.processes[thread_idx][it]
         IN  IF s.heap[p].arrival > s.timer
             THEN sidetrack_admits_overdue(s, thread_idx, it + 1)
             ELSE IF ~ensure_pid_is_unique(s, thread_idx, s.heap[p].pid) \/ s.heap[p].events = <<>>
             THEN [s EXCEPT !.status = "hung", !.rejected = @ \cup {p}]
             ELSE LET d == dispatch_process_by_first_event(s, thread_idx, p)
                  IN  sidetrack_admits_overdue(
                        [d EXCEPT !.processes[thread_idx] = RemoveAt(@, it),
                                  !.placement[p].admitted =
                                      Some([at |-> s.timer, queues |-> QueuesHolding(d, p)])],
                        thread_idx, it)

\* Scheduler::sidetrack_processes admitting a process one tick before its
\* arrival (`process->arrival != timer + 1`)
RECURSIVE sidetrack_admits_early(_, _, _)
sidetrack_admits_early(s, thread_idx, it) ==
    IF s.status # "ok" \/ it > Len(s.processes[thread_idx]) THEN s
    ELSE LET p == s.processes[thread_idx][it]
         IN  IF s.heap[p].arrival # s.timer + 1
             THEN sidetrack_admits_early(s, thread_idx, it + 1)
             ELSE IF ~ensure_pid_is_unique(s, thread_idx, s.heap[p].pid) \/ s.heap[p].events = <<>>
             THEN [s EXCEPT !.status = "hung", !.rejected = @ \cup {p}]
             ELSE LET d == dispatch_process_by_first_event(s, thread_idx, p)
                  IN  sidetrack_admits_early(
                        [d EXCEPT !.processes[thread_idx] = RemoveAt(@, it),
                                  !.placement[p].admitted =
                                      Some([at |-> s.timer, queues |-> QueuesHolding(d, p)])],
                        thread_idx, it)

\* Scheduler::sidetrack_processes, the loop from iterator position `it`.
\* Both `continue` statements after a diagnostic leave `it` where it is, so
\* the loop examines the same element again, for ever: status "hung".
RECURSIVE sidetrack_from(_, _, _)
sidetrack_from(s, thread_idx, it) ==
    IF s.status # "ok" \/ it > Len(s.processes[thread_idx]) THEN s
    ELSE LET p == s.processes[thread_idx][it]
         IN  IF s.heap[p].arrival # s.timer
             THEN sidetrack_from(s, thread_idx, it + 1)
             ELSE IF ~ensure_pid_is_unique(s, thread_idx, s.heap[p].pid)
             THEN [s EXCEPT !.status = "hung", !.rejected = @ \cup {p}]
             ELSE IF s.heap[p].events = <<>>
             THEN [s EXCEPT !.status = "hung", !.rejected = @ \cup {p}]
             ELSE LET d == dispatch_process_by_first_event(s, thread_idx, p)
                  IN  sidetrack_from(
                        [d EXCEPT !.processes[thread_idx] = RemoveAt(@, it),
                                  !.placement[p].admitted =
                                      Some([at |-> s.timer, queues |-> QueuesHolding(d, p)])],
                        thread_idx, it)

sidetrack_processes(s, thread_idx) == sidetrack_from(s, thread_idx, 1)

\* update_waiting_list without the for loop over to_dispatch
dispatch_all_skipped(s, thread_idx, to_dispatch) == s

\* the for loop over to_dispatch at the end of update_waiting_list
RECURSIVE dispatch_all(_, _, _)
dispatch_all(s, thread_idx, to_dispatch) ==
    IF s.status # "ok" \/ to_dispatch = <<>> THEN s
    ELSE dispatch_all(dispatch_process_by_first_event(s, thread_idx, Head(to_dispatch)),
                      thread_idx, Tail(to_dispatch))

\* the scan of update_waiting_list with every dispatch made at once, inside
\* the scan, instead of being collected in to_dispatch
RECURSIVE waiting_from_dispatching(_, _, _, _)
waiting_from_dispatching(s, thread_idx, it, to_dispatch) ==
    IF s.status # "ok" \/ it > Len(s.waiting[thread_idx]) THEN s
    ELSE LET p == s.waiting[thread_idx][it]
         IN  IF s.heap[p].events = <<>> THEN assert_fail(s, "assert_events")
             ELSE IF Head(s.heap[p].events).kind # "Io" THEN assert_fail(s, "assert_kind")
             ELSE IF ~(Head(s.heap[p].events).duration > 0) THEN assert_fail(s, "assert_duration")
             ELSE LET dec == [s EXCEPT !.heap[p].events[1].duration = @ - 1,
                                       !.ticks[p].io = Append(@, s.timer)]
                  IN  IF Head(dec.heap[p].events).duration = 0
                      THEN LET pop == [dec EXCEPT !.heap[p].events = Tail(@),
                                                  !.waiting[thread_idx] = RemoveAt(@, it)]
                           IN  IF pop.heap[p].events # <<>>
                               THEN waiting_from_dispatching(
                                      dispatch_process_by_first_event(pop, thread_idx, p),
                                      thread_idx, it, to_dispatch)
                               ELSE waiting_from_dispatching(
                                      [pop EXCEPT
                                         !.heap[p].finish_time =
                                             IF ~has_value(@) THEN Some(s.timer) ELSE NONE,
                                         !.finished = Append(@, p)],
                                      thread_idx, it, to_dispatch)
                      ELSE waiting_from_dispatching(dec, thread_idx, it + 1, to_dispatch)

\* Scheduler::update_waiting_list, the scan from iterator position `it`
RECURSIVE waiting_from(_, _, _, _)
waiting_from(s, thread_idx, it, to_dispatch) ==
    IF s.status # "ok" THEN s
    ELSE IF it > Len(s.waiting[thread_idx]) THEN dispatch_all(s, thread_idx, to_dispatch)
    ELSE LET p == s.waiting[thread_idx][it]
         IN  IF s.heap[p].events = <<>> THEN assert_fail(s, "assert_events")
             ELSE IF Head(s.heap[p].events).kind # "Io" THEN assert_fail(s, "assert_kind")
             ELSE IF ~(Head(s.heap[p].events).duration > 0) THEN assert_fail(s, "assert_duration")
             ELSE LET dec == [s EXCEPT !.heap[p].events[1].duration = @ - 1,
                                       !.ticks[p].io = Append(@, s.timer)]
                  IN  IF Head(dec.heap[p].events).duration = 0
                      THEN LET pop == [dec EXCEPT !.heap[p].events = Tail(@)]
                           IN  IF pop.heap[p].events # <<>>
                               THEN waiting_from(
                                      [pop EXCEPT !.waiting[thread_idx] = RemoveAt(@, it)],
                                      thread_idx, it, Append(to_dispatch, p))
                               ELSE waiting_from(
                                      [pop EXCEPT
                                         !.heap[p].finish_time =
                                             IF ~has_value(@) THEN Some(s.timer) ELSE NONE,
                                         !.finished = Append(@, p),
                                         !.waiting[thread_idx] = RemoveAt(@, it)],
                                      thread_idx, it, to_dispatch)
                      ELSE waiting_from(dec, thread_idx, it + 1, to_dispatch)

update_waiting_list(s, thread_idx) == waiting_from(s, thread_idx, 1, <<>>)

\* Scheduler::update_running, without the final running[thread_idx] = nullptr
update_running_keeps_slot(s, thread_idx) ==
    IF s.status # "ok" \/ s.running[thread_idx] = NULL THEN s
    ELSE LET p == s.running[thread_idx]
         IN  IF s.heap[p].events = <<>> THEN assert_fail(s, "assert_events")
             ELSE IF Head(s.heap[p].events).kind # "Cpu" THEN assert_fail(s, "assert_kind")
             ELSE IF ~(Head(s.heap[p].events).duration > 0) THEN assert_fail(s, "assert_duration")
             ELSE LET dec == [s EXCEPT !.heap[p].events[1].duration = @ - 1,
                                       !.ticks[p].cpu = Append(@, s.timer)]
                  IN  IF Head(dec.heap[p].events).duration = 0
                      THEN LET pop == [dec EXCEPT !.heap[p].events = Tail(@)]
                               nxt == IF pop.heap[p].events # <<>>
                                      THEN dispatch_process_by_first_event(pop, thread_idx, p)
                                      ELSE [pop EXCEPT !.finished = Append(@, p)]
                           IN  nxt
                      ELSE dec

\* Scheduler::update_running
update_running(s, thread_idx) ==
    IF s.status # "ok" \/ s.running[thread_idx] = NULL THEN s
    ELSE LET p == s.running[thread_idx]
         IN  IF s.heap[p].events = <<>> THEN assert_fail(s, "assert_events")
             ELSE IF Head(s.heap[p].events).kind # "Cpu" THEN assert_fail(s, "assert_kind")
             ELSE IF ~(Head(s.heap[p].events).duration > 0) THEN assert_fail(s, "assert_duration")
             ELSE LET dec == [s EXCEPT !.heap[p].events[1].duration = @ - 1,
                                       !.ticks[p].cpu = Append(@, s.timer)]
                  IN  IF Head(dec.heap[p].events).duration = 0
                      THEN LET pop == [dec EXCEPT !.heap[p].events = Tail(@)]
                               nxt == IF pop.heap[p].events # <<>>
                                      THEN dispatch_process_by_first_event(pop, thread_idx, p)
                                      ELSE [pop EXCEPT !.finished = Append(@, p)]
                           IN  IF nxt.status # "ok" THEN nxt
                               ELSE [nxt EXCEPT !.running[thread_idx] = NULL]
                      ELSE dec

\* RoundRobinPolicy::operator(), the split of a front event longer than quantum
split_off_by_one(events, q) ==
    IF Head(events).duration > q
    THEN PushFront([events EXCEPT ![1].duration = @ - q - 1],
                   Event("Cpu", q, Head(events).resource_usage))
    ELSE events

\* the same split without `next_event.duration -= quantum`
split_keeps_duration(events, q) ==
    IF Head(events).duration > q
    THEN PushFront(events, Event("Cpu", q, Head(events).resource_usage))
    ELSE events

\* the same split with the new event's resource_usage left at zero
split_resets_usage(events, q) ==
    IF Head(events).duration > q
    THEN PushFront([events EXCEPT ![1].duration = @ - q], Event("Cpu", q, 0))
    ELSE events

split_front_event(events, q) ==
    IF Head(events).duration > q
    THEN PushFront([events EXCEPT ![1].duration = @ - q],
                   Event("Cpu", q, Head(events).resource_usage))
    ELSE events

\* RoundRobinPolicy::operator(), the loop from thread_idx on
RECURSIVE RoundRobinPolicy_from(_, _)
RoundRobinPolicy_from(s, thread_idx) ==
    IF s.status # "ok" \/ ~(thread_idx < s.threads_count) THEN s
    ELSE IF s.ready[thread_idx] = <<>> THEN s
    ELSE LET p  == Head(s.ready[thread_idx])
             s1 == [s EXCEPT !.ready[thread_idx] = Tail(@), !.running[thread_idx] = p]
         IN  IF s1.heap[p].events = <<>> THEN assert_fail(s1, "assert_events")
             ELSE IF Head(s1.heap[p].events).kind # "Cpu" THEN assert_fail(s1, "assert_kind")
             ELSE RoundRobinPolicy_from(
                    [s1 EXCEPT !.heap[p].events = split_front_event(@, s1.quantum)],
                    thread_idx + 1)

RoundRobinPolicy(s) == RoundRobinPolicy_from(s, 0)

schedule_policy(s) == RoundRobinPolicy(s)

\* Scheduler::step, line 71: the policy is invoked when the slot is empty
invoke_policy(s, thread_idx) ==
    IF s.status = "ok" /\ s.running[thread_idx] = NULL THEN schedule_policy(s) ELSE s

\* Scheduler::step without lines 72-75
fallback_skipped(s, thread_idx) == s

\* Scheduler::step, lines 72-75: the engine's own move from ready to running
fallback_schedule(s, thread_idx) ==
    IF s.status = "ok" /\ s.running[thread_idx] = NULL /\ Len(s.ready[thread_idx]) > 0
    THEN [s EXCEPT !.running[thread_idx] = Head(s.ready[thread_idx]),
                   !.ready[thread_idx] = Tail(@)]
    ELSE s

\* Scheduler::step, lines 77-80
sample_cpu_usage(s, thread_idx) ==
    IF s.status = "ok" /\ s.running[thread_idx] # NULL
       /\ s.heap[s.running[thread_idx]].events # <<>>
    THEN [s EXCEPT !.cpu_usage[thread_idx] =
                     Head(s.heap[s.running[thread_idx]].events).resource_usage]
    ELSE s

\* Scheduler::step, line 82
clear_usage_when_complete(s) ==
    IF s.status = "ok" /\ complete(s)
    THEN [s EXCEPT !.cpu_usage = [i \in Slots |-> 0]]
    ELSE s

\* Scheduler::step, lines 84-85, dividing by the timer of the next step
update_throughput_after_tick(s) ==
    IF s.status # "ok" THEN s
    ELSE [s EXCEPT !.throughput = <<Len(s.finished), s.timer + 1>>,
                   !.previous_finished_count = Len(s.finished)]

\* Scheduler::step, lines 84-85
update_throughput(s) ==
    IF s.status # "ok" THEN s
    ELSE [s EXCEPT !.throughput = IF s.timer # 0 THEN <<Len(s.finished), s.timer>>
                                  ELSE <<0, 1>>,
                   !.previous_finished_count = Len(s.finished)]

\* the body of the for loop with the scheduling moved before update_running
step_thread_schedules_first(s, thread_idx) ==
    update_throughput(
      clear_usage_when_complete(
        sample_cpu_usage(
          update_running(
            fallback_schedule(
              invoke_policy(
                update_waiting_list(
                  sidetrack_processes(s, thread_idx),
                  thread_idx),
                thread_idx),
              thread_idx),
            thread_idx),
          thread_idx)))

\* Scheduler::step, lines 67-69: the three calls that precede the scheduling
advance_queues(s, thread_idx) ==
    update_running(
      update_waiting_list(
        sidetrack_processes(s, thread_idx),
        thread_idx),
      thread_idx)

\* the body of the for loop of Scheduler::step for one thread_idx
step_thread(s, thread_idx) ==
    update_throughput(
      clear_usage_when_complete(
        sample_cpu_usage(
          fallback_schedule(
            invoke_policy(
              advance_queues(s, thread_idx),
              thread_idx),
            thread_idx),
          thread_idx)))

\* Scheduler::step from its call up to the turn of the loop for thread_idx
RECURSIVE step_upto(_, _)
step_upto(s, thread_idx) ==
    IF thread_idx = 0 THEN s
    ELSE step_thread(step_upto(s, thread_idx - 1), thread_idx - 1)

\* Scheduler::step with `++timer` inside the loop over the cores
RECURSIVE step_from_ticks_per_core(_, _)
step_from_ticks_per_core(s, thread_idx) ==
    IF s.status # "ok" \/ thread_idx >= s.threads_count THEN s
    ELSE step_from_ticks_per_core(
           [step_thread(s, thread_idx) EXCEPT !.timer = @ + 1], thread_idx + 1)

\* Scheduler::step
RECURSIVE step_from(_, _)
step_from(s, thread_idx) ==
    IF s.status # "ok" THEN s
    ELSE IF thread_idx < s.threads_count
    THEN step_from(step_thread(s, thread_idx), thread_idx + 1)
    ELSE [s EXCEPT !.timer = @ + 1]

step(s) == step_from(s, 0)

\* Scheduler::emplace_process advancing next_thread modulo MAX_THREADS
emplace_process_mod_max(s, name, pid, arrival, events) ==
    [s EXCEPT !.heap = Append(@, Process(name, pid, arrival, events)),
              !.processes[s.next_thread] = Append(@, Len(s.heap) + 1),
              !.next_thread = (s.next_thread + 1) % MAX_THREADS,
              !.spawned = Append(@, events),
              !.ticks = Append(@, [cpu |-> <<>>, io |-> <<>>]),
              !.placement = Append(@, [core |-> s.next_thread, inserted |-> s.timer, admitted |-> NONE])]

\* Scheduler::emplace_process
emplace_process(s, name, pid, arrival, events) ==
    LET p == Len(s.heap) + 1
    IN  [s EXCEPT !.heap = Append(@, Process(name, pid, arrival, events)),
                  !.processes[s.next_thread] = Append(@, p),
                  !.next_thread = (s.next_thread + 1) % s.threads_count,
                  !.spawned = Append(@, events),
                  !.ticks = Append(@, [cpu |-> <<>>, io |-> <<>>]),
                  !.placement = Append(@, [core |-> s.next_thread, inserted |-> s.timer, admitted |-> NONE])]

\* the loop of average_waiting_time over finished[k..]
RECURSIVE total_waiting_time(_, _)
total_waiting_time(s, k) ==
    IF k > Len(s.finished) THEN 0
    ELSE (IF ~has_value(s.heap[s.finished[k]].start_time) THEN 0
          ELSE value(s.heap[s.finished[k]].start_time) - s.heap[s.finished[k]].arrival)
         + total_waiting_time(s, k + 1)

\* Scheduler::average_waiting_time
average_waiting_time(s) ==
    IF s.finished = <<>> THEN 0 ELSE total_waiting_time(s, 1) \div Len(s.finished)

\* the loop of average_turnaround_time over finished[k..]
RECURSIVE total_turnaround_time(_, _)
total_turnaround_time(s, k) ==
    IF k > Len(s.finished) THEN 0
    ELSE (IF ~has_value(s.heap[s.finished[k]].finish_time) THEN 0
          ELSE value(s.heap[s.finished[k]].finish_time) - s.heap[s.finished[k]].arrival)
         + total_turnaround_time(s, k + 1)

\* Scheduler::average_turnaround_time
average_turnaround_time(s) ==
    IF s.finished = <<>> THEN 0 ELSE total_turnaround_time(s, 1) \div Len(s.finished)

\* ----------------------------------------------------------------- Lexer
\* <cctype> in the "C" locale
isdigit(c) == c \in {"0", "1", "2", "3", "4", "5", "6", "7", "8", "9"}
Letters == Range(LowerCase) \cup Range(UpperCase)
isalpha(c) == c \in Letters
isalnum(c) == isalpha(c) \/ isdigit(c)
isspace(c) == c \in {" ", "\n", "\t", "\r"}

\* std::string_view::substr(pos, count)
substr(source, pos, count) == SubSeq(source, pos + 1, pos + count)

\* Interpreter::Token with its Span
Token(lexeme, kind, start, end) ==
    [lexeme |-> lexeme, kind |-> kind, span |-> [start |-> start, end |-> end]]

\* Token::is_keyword
is_keyword(lexeme) == lexeme \in {<<"f", "o", "r">>}

\* what a token function leaves behind: the cursor, the token if any, and
\* whether an assertion stopped the program
Lexed(cursor, token, lexer_status) ==
    [cursor |-> cursor, token |-> token, status |-> lexer_status]

\* Lexer::peek() with the cursor at `cursor`
Lexer_peek(source, cursor) ==
    IF cursor >= Len(source) THEN NONE ELSE Some(source[cursor + 1])

\* token_kind_try_from_character
token_kind_try_from_character(character) ==
    CASE character = "(" -> Some("LeftParen")
      [] character = ")" -> Some("RightParen")
      [] character = "[" -> Some("LeftBracket")
      [] character = "]" -> Some("RightBracket")
      [] character = "," -> Some("Comma")
      [] character = "{" -> Some("LeftCurly")
      [] character = "}" -> Some("RightCurly")
      [] OTHER -> NONE

\* Lexer::single_character_token
single_character_token(source, cursor) ==
    IF ~has_value(token_kind_try_from_character(source[cursor + 1]))
    THEN Lexed(cursor, NONE, "ok")
    ELSE Lexed(cursor + 1,
               Some(Token(substr(source, cursor, 1),
                          value(token_kind_try_from_character(source[cursor + 1])),
                          cursor, cursor + 1)),
               "ok")

\* The while loop of keyword_or_identifier, string_literal, number and
\* skip_whitespace: peek() and next() while the character is one the loop takes.
\* The loop leaves the cursor at the first position from `cursor` on that is the
\* end of the input or holds a character the loop does not take.
while_peek(source, cursor, takes(_)) ==
    CHOOSE end \in cursor .. Len(source) :
        /\ \A idx \in cursor .. end - 1 : takes(source[idx + 1])
        /\ end = Len(source) \/ ~takes(source[end + 1])

\* Lexer::keyword_or_identifier, from the while loop on: TRY(peek()) returns
\* without a token at the end of the input
keyword_or_identifier_from(source, start_idx, cursor) ==
    IF ~has_value(Lexer_peek(source, cursor)) THEN Lexed(cursor, NONE, "ok")
    ELSE Lexed(cursor,
               Some(Token(substr(source, start_idx, cursor - start_idx),
                          IF is_keyword(substr(source, start_idx, cursor - start_idx))
                          THEN "Keyword" ELSE "Identifier",
                          start_idx, cursor)),
               "ok")

\* Lexer::keyword_or_identifier
keyword_or_identifier(source, cursor) ==
    IF ~isalnum(source[cursor + 1]) THEN Lexed(cursor, NONE, "assert_lexer")
    ELSE keyword_or_identifier_from(
             source, cursor,
             while_peek(source, cursor, LAMBDA c : isalnum(c) \/ c = "_"))

\* Lexer::string_literal, from the while loop on
string_literal_from(source, start_idx, cursor) ==
    IF ~has_value(Lexer_peek(source, cursor)) THEN Lexed(cursor, NONE, "ok")
    ELSE Lexed(cursor + 1,
               Some(Token(substr(source, start_idx, cursor - start_idx),
                          "StringLiteral", start_idx, cursor)),
               "ok")

\* Lexer::string_literal: the assert calls next(), which steps over the quote
Lexer_string_literal(source, cursor) ==
    string_literal_from(source, cursor + 1,
                        while_peek(source, cursor + 1, LAMBDA c : c # "\""))

\* Lexer::number, from the while loop on
number_from(source, start_idx, cursor) ==
    IF ~has_value(Lexer_peek(source, cursor)) THEN Lexed(cursor, NONE, "ok")
    ELSE Lexed(cursor,
               Some(Token(substr(source, start_idx, cursor - start_idx),
                          "Number", start_idx, cursor)),
               "ok")

\* Lexer::number
Lexer_number(source, cursor) ==
    number_from(source, cursor, while_peek(source, cursor, LAMBDA c : isdigit(c)))

\* Lexer::colon and Lexer::dotdot: the character twice, or no token
double_character_token(source, cursor, character, kind) ==
    IF has_value(Lexer_peek(source, cursor + 1)) /\ source[cursor + 2] = character
    THEN Lexed(cursor + 2, Some(Token(substr(source, cursor, 2), kind, cursor, cursor + 2)), "ok")
    ELSE Lexed(cursor + 1, NONE, "ok")

colon(source, cursor) == double_character_token(source, cursor, ":", "ColonColon")
dotdot(source, cursor) == double_character_token(source, cursor, ".", "DotDot")

\* Lexer::skip_whitespace
skip_whitespace(source, cursor) == while_peek(source, cursor, LAMBDA c : isspace(c))

\* Lexer::next_token after skip_whitespace
token_at(source, cursor) ==
    IF ~has_value(Lexer_peek(source, cursor)) THEN Lexed(cursor, NONE, "ok")
    ELSE IF isdigit(source[cursor + 1]) THEN Lexer_number(source, cursor)
    ELSE IF source[cursor + 1] \in {"[", "]", ",", "{", "}", "(", ")"}
    THEN single_character_token(source, cursor)
    ELSE IF source[cursor + 1] = ":" THEN colon(source, cursor)
    ELSE IF source[cursor + 1] = "." THEN dotdot(source, cursor)
    ELSE IF source[cursor + 1] = "\"" THEN Lexer_string_literal(source, cursor)
    ELSE keyword_or_identifier(source, cursor)

\* Lexer::next_token
next_token(source, cursor) == token_at(source, skip_whitespace(source, cursor))

\* Lexer::lex, one turn of the while loop: the lexer object is the record
\* lexer, with the cursor, the tokens pushed so far and whether an assertion
\* stopped the program. With nothing more to read the loop has ended and the
\* turn changes nothing.
lex_step(source, lexer) ==
    IF lexer.status # "ok" \/ lexer.cursor >= Len(source) THEN lexer
    ELSE Bind(next_token(source, lexer.cursor), LAMBDA token :
           [cursor |-> token.cursor,
            tokens |-> IF has_value(token.token)
                       THEN Append(lexer.tokens, value(token.token))
                       ELSE lexer.tokens,
            status |-> token.status])

\* Lexer::lex, n turns of the while loop, taken as two halves
RECURSIVE lex_steps(_, _, _)
lex_steps(source, lexer, n) ==
    IF lexer.status # "ok" \/ lexer.cursor >= Len(source) \/ n = 0 THEN lexer
    ELSE IF n = 1 THEN lex_step(source, lexer)
    ELSE Bind(lex_steps(source, lexer, n \div 2), LAMBDA half :
           lex_steps(source, half, n - n \div 2))

\* Lexer::lex: every turn of the loop moves the cursor forward or stops the
\* program, so Len(source) turns reach the end of the input
lex(source) ==
    Bind(lex_steps(source, [cursor |-> 0, tokens |-> <<>>, status |-> "ok"], Len(source)),
         LAMBDA lexer : [tokens |-> lexer.tokens, status |-> lexer.status])

\* Lexer::lex, line 48: `return result;`, an optional that holds the vector
Lexer_lex(source) == Some(lex(source).tokens)

\* ---------------------------------------------------------------- Parser
\* The parser object is the record ps: the tokens, the cursor, ast.expressions
\* and whether an assertion stopped the program. expression_id always equals
\* the number of expressions emplaced so far. Every parsing function returns
\* the parser object it leaves behind and its std::optional result.
Parsed(ps, result) == [ps |-> ps, result |-> result]

\* Span::join
Span_join(lhs, rhs) == [start |-> lhs.start, end |-> rhs.end]

\* Parser::has_more
Parser_has_more(ps) == ~(ps.cursor >= Len(ps.tokens))

\* Parser::peek(offset)
Parser_peek(ps, offset) ==
    IF ps.cursor + offset < Len(ps.tokens) THEN Some(ps.tokens[ps.cursor + offset + 1]) ELSE NONE

\* Parser::next
Parser_next(ps) ==
    IF Parser_has_more(ps)
    THEN Parsed([ps EXCEPT !.cursor = @ + 1], Some(ps.tokens[ps.cursor + 1]))
    ELSE Parsed(ps, NONE)

\* Parser::consume_then_match
consume_then_match(ps, expected) ==
    Bind(Parser_next(ps), LAMBDA token :
      IF has_value(token.result) /\ value(token.result).kind # expected
      THEN Parsed(token.ps, NONE)
      ELSE token)

\* Parser::identifier
identifier(ps) == consume_then_match(ps, "Identifier")

\* Ast::emplace_expression(kind, span, expression_id++)
emplace_expression(ps, kind, span) ==
    Parsed([ps EXCEPT !.expressions =
                 Append(@, [kind |-> kind, span |-> span, id |-> Len(ps.expressions)])],
           Some([kind |-> kind, span |-> span, id |-> Len(ps.expressions)]))

\* Parser::string_literal
Parser_string_literal(ps) ==
    Bind(consume_then_match(ps, "StringLiteral"), LAMBDA literal :
      IF literal.result = NONE THEN literal
      ELSE emplace_expression(literal.ps,
                              [tag |-> "StringLiteral", literal |-> value(literal.result)],
                              value(literal.result).span))

\* Parser::number
Parser_number(ps) ==
    Bind(consume_then_match(ps, "Number"), LAMBDA number :
      IF number.result = NONE THEN number
      ELSE emplace_expression(number.ps,
                              [tag |-> "Number", number |-> value(number.result)],
                              value(number.result).span))

\* Parser::range, after the three consume_then_match calls succeeded
range_of(ps, start_range, end_range) ==
    emplace_expression(ps, [tag |-> "Range", start |-> start_range, end |-> end_range],
                       Span_join(start_range.span, end_range.span))

\* Parser::range
range(ps) ==
    Bind(consume_then_match(ps, "Number"), LAMBDA a :
      IF a.result = NONE THEN a
      ELSE Bind(consume_then_match(a.ps, "DotDot"), LAMBDA b :
        IF b.result = NONE THEN b
        ELSE Bind(consume_then_match(b.ps, "Number"), LAMBDA c :
          IF c.result = NONE THEN c
          ELSE range_of(c.ps, value(a.result), value(c.result)))))

RECURSIVE expression(_)
RECURSIVE primary_expression(_)
RECURSIVE elements_from(_, _, _, _)
RECURSIVE for_body_from(_, _, _, _)

\* what the loop over the elements leaves behind
Collected(ps, failed, elements, end_span) ==
    [ps |-> ps, failed |-> failed, elements |-> elements, end_span |-> end_span]

\* the loop shared by Parser::list, Parser::tuple and
\* Parser::call_expression_arguments: elements up to the closing token
elements_from(ps, closing, elements, end_span) ==
    IF ~has_value(Parser_peek(ps, 0)) THEN Collected(ps, FALSE, elements, end_span)
    ELSE IF value(Parser_peek(ps, 0)).kind = closing
    THEN Collected(consume_then_match(ps, closing).ps, FALSE, elements,
                   value(Parser_peek(ps, 0)).span)
    ELSE IF value(Parser_peek(ps, 0)).kind = "Comma"
    THEN elements_from(consume_then_match(ps, "Comma").ps, closing, elements, end_span)
    ELSE Bind(expression(ps), LAMBDA expr :
           IF expr.result = NONE THEN Collected(expr.ps, TRUE, elements, end_span)
           ELSE elements_from(expr.ps, closing,
                              Append(elements, value(expr.result).id), end_span))

\* Parser::list and Parser::tuple
bracketed(ps, opening, closing, tag) ==
    Bind(consume_then_match(ps, opening), LAMBDA left :
      IF left.result = NONE THEN left
      ELSE Bind(elements_from(left.ps, closing, <<>>, value(left.result).span), LAMBDA body :
             IF body.failed \/ body.ps.status # "ok" THEN Parsed(body.ps, NONE)
             ELSE emplace_expression(
                    body.ps, [tag |-> tag, elements |-> body.elements],
                    Span_join(value(left.result).span, body.end_span))))

Parser_list(ps) == bracketed(ps, "LeftBracket", "RightBracket", "List")
Parser_tuple(ps) == bracketed(ps, "LeftParen", "RightParen", "Tuple")

\* Parser::call_expression_arguments: the result of the first
\* consume_then_match is discarded
call_expression_arguments(ps) ==
    elements_from(consume_then_match(ps, "LeftParen").ps, "RightParen", <<>>, [start |-> 0, end |-> 0])

\* Parser::call_expression
call_expression(ps) ==
    Bind(identifier(ps), LAMBDA callee :
      IF callee.result = NONE THEN callee
      ELSE Bind(call_expression_arguments(callee.ps), LAMBDA arguments :
             IF arguments.failed \/ arguments.ps.status # "ok" THEN Parsed(arguments.ps, NONE)
             ELSE emplace_expression(
                    arguments.ps,
                    [tag |-> "Call", identifier |-> value(callee.result),
                     arguments |-> arguments.elements],
                    Span_join(value(callee.result).span,
                              IF arguments.elements = <<>> THEN value(callee.result).span
                              ELSE arguments.ps.expressions[
                                     arguments.elements[Len(arguments.elements)] + 1].span))))

\* Parser::constant_definition
constant_definition(ps) ==
    Bind(identifier(ps), LAMBDA name :
      IF name.result = NONE THEN name
      ELSE Bind(consume_then_match(name.ps, "ColonColon"), LAMBDA colons :
             IF colons.result = NONE THEN colons
             ELSE Bind(primary_expression(colons.ps), LAMBDA val :
                    IF val.result = NONE THEN val
                    ELSE emplace_expression(
                           val.ps,
                           [tag |-> "Constant", name |-> value(name.result),
                            value |-> value(val.result).id],
                           Span_join(value(name.result).span, value(val.result).span)))))

\* what the loop over the body of a for leaves behind
Body(ps, failed, body, last_span) ==
    [ps |-> ps, failed |-> failed, body |-> body, last_span |-> last_span]

\* Parser::for_loop, the loop over the body: current_token is what peek()
\* returned before the first round and what next() returned after each round
for_body_from(ps, current_token, body, last_span) ==
    IF ~has_value(current_token) \/ value(current_token).kind = "RightCurly"
    THEN Body(ps, FALSE, body, last_span)
    ELSE Bind(expression(ps), LAMBDA expr :
           IF expr.result = NONE THEN Body(expr.ps, TRUE, body, last_span)
           ELSE Bind(Parser_next(expr.ps), LAMBDA following :
                  for_body_from(following.ps, following.result,
                                Append(body, value(expr.result).id), value(expr.result).span)))

\* Parser::for_loop
for_loop(ps) ==
    Bind(consume_then_match(ps, "Keyword"), LAMBDA for_token :
      IF for_token.result = NONE THEN for_token
      ELSE Bind(range(for_token.ps), LAMBDA range_expression :
        IF range_expression.result = NONE THEN range_expression
        ELSE Bind(consume_then_match(range_expression.ps, "LeftCurly"), LAMBDA left_curly :
          IF left_curly.result = NONE THEN left_curly
          ELSE Bind(for_body_from(left_curly.ps, Parser_peek(left_curly.ps, 0), <<>>,
                                  value(left_curly.result).span), LAMBDA loop :
                 IF loop.failed \/ loop.ps.status # "ok" THEN Parsed(loop.ps, NONE)
                 ELSE emplace_expression(
                        loop.ps,
                        [tag |-> "For", range |-> value(range_expression.result).id,
                         body |-> loop.body],
                        Span_join(value(for_token.result).span, loop.last_span))))))

\* primary_expression, the switch on the kind of the token peeked
primary_expression_of(ps, maybe_token, following) ==
    CASE value(maybe_token).kind = "Identifier" ->
           IF has_value(following) /\ value(following).kind = "LeftParen"
           THEN call_expression(ps)
           ELSE IF has_value(following) /\ value(following).kind = "ColonColon"
           THEN constant_definition(ps)
           ELSE emplace_expression(
                  consume_then_match(ps, "Identifier").ps,
                  [tag |-> "Variable", name |-> value(maybe_token)],
                  value(maybe_token).span)
      [] value(maybe_token).kind = "StringLiteral" -> Parser_string_literal(ps)
      [] value(maybe_token).kind = "Number" -> Parser_number(ps)
      [] value(maybe_token).kind = "LeftBracket" -> Parser_list(ps)
      [] value(maybe_token).kind = "LeftParen" -> Parser_tuple(ps)
      [] OTHER -> Parsed([ps EXCEPT !.status = "assert_parser"], NONE)

\* Parser::primary_expression
primary_expression(ps) ==
    IF ps.status # "ok" \/ ~has_value(Parser_peek(ps, 0)) THEN Parsed(ps, NONE)
    ELSE primary_expression_of(ps, Parser_peek(ps, 0), Parser_peek(ps, 1))

\* Parser::expression
expression(ps) ==
    IF ps.status # "ok" \/ ~has_value(Parser_peek(ps, 0)) THEN Parsed(ps, NONE)
    ELSE IF value(Parser_peek(ps, 0)).kind = "Keyword"
            /\ value(Parser_peek(ps, 0)).lexeme = <<"f", "o", "r">>
    THEN for_loop(ps)
    ELSE primary_expression(ps)

\* Parser::expression_statement
expression_statement(ps) ==
    Bind(expression(ps), LAMBDA expr :
      IF expr.result = NONE THEN expr
      ELSE Parsed(expr.ps, Some([kind |-> value(expr.result).id,
                                 span |-> value(expr.result).span,
                                 id |-> value(expr.result).id])))

\* Parser::parse, the while loop
RECURSIVE parse_from(_, _)
parse_from(ps, statements) ==
    IF ps.status # "ok" \/ ~Parser_has_more(ps)
    THEN [statements |-> statements, expressions |-> ps.expressions, status |-> ps.status]
    ELSE Bind(expression_statement(ps), LAMBDA statement :
           parse_from(statement.ps,
                      IF has_value(statement.result)
                      THEN Append(statements, value(statement.result))
                      ELSE statements))

\* Parser::parse
parse(lexed) ==
    parse_from([tokens |-> lexed, cursor |-> 0, expressions |-> <<>>, status |-> "ok"], <<>>)

\* ----------------------------------------------------------- Interpreter

\* Interpreter::list_as_events_deque: the list holds <<tag, duration>> tuples,
\* usage[k] is the value drawn for the k-th event's resource_usage.
RECURSIVE list_as_events_deque(_, _)
list_as_events_deque(list, usage) ==
    IF list = <<>> THEN Some(<<>>)
    ELSE LET tuple == Head(list)
             maybe_event_kind == event_kind_try_from_str(tuple[1])
             rest == list_as_events_deque(Tail(list), Tail(usage))
         IN  IF ~has_value(maybe_event_kind) THEN NONE
             ELSE IF ~has_value(rest) THEN NONE
             ELSE Some(<<Event(value(maybe_event_kind), tuple[2], Head(usage))>> \o value(rest))

\* Interpreter::spawn_process_builtin on evaluated arguments
spawn_process_builtin(s, name, pid, arrival, list, usage) ==
    LET events == list_as_events_deque(list, usage)
    IN  IF ~has_value(events) THEN s
        ELSE emplace_process(s, name, pid, arrival, value(events))

\* Interpreter::Value, one constructor per alternative of the variant
StringValue(string) == [type |-> "string", v |-> string]
NumberValue(number) == [type |-> "number", v |-> number]
ListValue(values) == [type |-> "list", v |-> values]
Monostate == [type |-> "monostate"]

Digits == <<"0","1","2","3","4","5","6","7","8","9">>
digit_value(c) == (CHOOSE k \in DOMAIN Digits : Digits[k] = c) - 1

\* std::from_chars on str[k..] with the value read so far; -1 is
\* result_out_of_range
RECURSIVE from_chars(_, _, _)
from_chars(str, k, acc) ==
    IF k > Len(str) \/ ~isdigit(str[k]) THEN acc
    ELSE IF acc > (SIZE_MAX - digit_value(str[k])) \div 10 THEN -1
    ELSE from_chars(str, k + 1, acc * 10 + digit_value(str[k]))

\* Util::parse_number
parse_number(str) ==
    IF str = <<>> \/ ~isdigit(str[1]) \/ from_chars(str, 1, 0) = -1 THEN NONE
    ELSE Some(from_chars(str, 1, 0))

\* Util::random_natural, raw being what the distribution would draw
random_natural(min, max, raw) ==
    IF max = 0 THEN 0
    ELSE IF raw < min THEN min
    ELSE IF raw > max THEN max
    ELSE raw

\* The interpreter object is the record it: the simulation it.sim, the
\* expressions of the Ast, the static spawned_pids, the trace of what was
\* evaluated, and what the random device and the reads outside a vector
\* will give (draws, usage, ub).
Evaluated(it, result) == [it |-> it, result |-> result]

\* the next draw of the random device
raw_draw(it) == it.draws[(it.drawn % Len(it.draws)) + 1]
after_draw(it) == [it EXCEPT !.drawn = @ + 1]

\* an assert that fails, or a read outside a vector that ends the program
abort(it, how) == [it EXCEPT !.sim.status = how]

\* Interpreter::is_builtin
is_builtin(token) ==
    token.lexeme \in { <<"s","p","a","w","n","_","p","r","o","c","e","s","s">>,
                       <<"s","p","a","w","n","_","r","a","n","d","o","m","_",
                         "p","r","o","c","e","s","s">> }

\* constant_visitor, the assignment to the limit called name
set_constant(it, name, number) ==
    IF name = <<"m","a","x","_","p","r","o","c","e","s","s","e","s">>
    THEN [it EXCEPT !.sim.max_processes = number]
    ELSE IF name = <<"m","a","x","_","e","v","e","n","t","s","_","p","e","r","_",
                     "p","r","o","c","e","s","s">>
    THEN [it EXCEPT !.sim.max_events_per_process = number]
    ELSE IF name = <<"m","a","x","_","s","i","n","g","l","e","_","e","v","e","n","t","_",
                     "d","u","r","a","t","i","o","n">>
    THEN [it EXCEPT !.sim.max_single_event_duration = number]
    ELSE IF name = <<"m","a","x","_","a","r","r","i","v","a","l","_","t","i","m","e">>
    THEN [it EXCEPT !.sim.max_arrival_time = number]
    ELSE it

ConstantNames ==
    { <<"m","a","x","_","p","r","o","c","e","s","s","e","s">>,
      <<"m","a","x","_","e","v","e","n","t","s","_","p","e","r","_","p","r","o","c","e","s","s">>,
      <<"m","a","x","_","s","i","n","g","l","e","_","e","v","e","n","t","_",
        "d","u","r","a","t","i","o","n">>,
      <<"m","a","x","_","a","r","r","i","v","a","l","_","t","i","m","e">> }

\* constant_visitor
constant_visitor(it, constant) ==
    IF it.expressions[constant.value + 1].kind.tag # "Number" THEN Evaluated(it, NONE)
    ELSE IF constant.name.lexeme \notin ConstantNames THEN Evaluated(it, Some(Monostate))
    ELSE IF ~has_value(parse_number(it.expressions[constant.value + 1].kind.number.lexeme))
    THEN Evaluated(it, NONE)
    ELSE Evaluated(
           set_constant(it, constant.name.lexeme,
                        value(parse_number(it.expressions[constant.value + 1].kind.number.lexeme))),
           Some(Monostate))

\* range_visitor
range_visitor(it, rng) ==
    IF ~has_value(parse_number(rng.start.lexeme)) \/ ~has_value(parse_number(rng.end.lexeme))
    THEN Evaluated(it, NONE)
    ELSE Evaluated(it, Some(ListValue(<<NumberValue(value(parse_number(rng.start.lexeme))),
                                        NumberValue(value(parse_number(rng.end.lexeme)))>>)))

\* Interpreter::list_as_events_deque on the Values of a list: tuple[0] and
\* tuple[1] are read unchecked, so a tuple that is too short gives what it.ub
\* says
RECURSIVE events_of_values(_, _)
events_of_values(it, values) ==
    IF values = <<>> THEN [events |-> Some(<<>>), aborted |-> FALSE]
    ELSE IF Head(values).type # "list" THEN [events |-> NONE, aborted |-> FALSE]
    ELSE IF Len(Head(values).v) < 2
            /\ (Head(values).v = <<>> \/ Head(values).v[1].type = "string")
    THEN [events |-> NONE, aborted |-> it.ub = "abort"]
    ELSE IF Head(values).v[1].type # "string" \/ Head(values).v[2].type # "number"
    THEN [events |-> NONE, aborted |-> FALSE]
    ELSE Bind(list_as_events_deque(<< <<Head(values).v[1].v, Head(values).v[2].v>> >>,
                                   <<it.usage>>), LAMBDA one :
           IF ~has_value(one) THEN [events |-> NONE, aborted |-> FALSE]
           ELSE Bind(events_of_values(it, Tail(values)), LAMBDA rest :
                  IF ~has_value(rest.events) THEN rest
                  ELSE [events |-> Some(value(one) \o value(rest.events)),
                        aborted |-> FALSE]))

\* process_random_event
process_random_event(it) ==
    Evaluated(
      after_draw(after_draw(it)),
      Event(IF random_natural(0, 1, raw_draw(it)) = 0 THEN "Cpu" ELSE "Io",
            random_natural(1, it.sim.max_single_event_duration, raw_draw(after_draw(it))),
            it.usage))

\* spawn_random_process_builtin, the loop pushing events_count events
RECURSIVE random_events(_, _, _)
random_events(it, events_count, events) ==
    IF Len(events) >= events_count THEN Evaluated(it, events)
    ELSE Bind(process_random_event(it), LAMBDA event :
           random_events(event.it, events_count, Append(events, event.result)))

\* the pid the loop `while (contains(spawned_pids, pid))` ends with when it
\* first drew pid and draws upwards from there
RECURSIVE redrawn_pid(_, _)
redrawn_pid(it, pid) ==
    IF pid \notin Range(it.spawned_pids) THEN pid
    ELSE redrawn_pid(it, IF pid >= it.sim.max_processes THEN 0 ELSE pid + 1)

\* every pid random_natural(0, max_processes) can return has been drawn
pids_exhausted(it) ==
    IF it.sim.max_processes = 0 THEN 0 \in Range(it.spawned_pids)
    ELSE Cardinality({p \in Range(it.spawned_pids) : p <= it.sim.max_processes})
           > it.sim.max_processes

\* spawn_random_process_builtin after the pid is drawn
spawn_random_process_with(it, pid) ==
    Bind(random_events(after_draw(after_draw(it)),
                       random_natural(1, it.sim.max_events_per_process, raw_draw(after_draw(it))),
                       <<>>), LAMBDA drawn :
      Evaluated([drawn.it EXCEPT
                   !.sim = emplace_process(
                             @, <<"P","r","o","c","e","s","s">>, pid,
                             random_natural(0, it.sim.max_arrival_time, raw_draw(it)),
                             drawn.result)],
                Some(Monostate)))

\* Interpreter::spawn_random_process_builtin
spawn_random_process_builtin(it, arguments) ==
    IF pids_exhausted(it) THEN Evaluated(abort(it, "hung"), NONE)
    ELSE Bind(redrawn_pid(it, random_natural(0, it.sim.max_processes, raw_draw(it))), LAMBDA pid :
           spawn_random_process_with([after_draw(it) EXCEPT !.spawned_pids = Append(@, pid)], pid))

RECURSIVE evaluate_expression(_, _)
RECURSIVE evaluate_elements(_, _, _)
RECURSIVE for_body(_, _, _)
RECURSIVE for_iterations(_, _, _, _)

\* list_visitor and tuple_visitor: the loop over the elements
evaluate_elements(it, elements, result) ==
    IF elements = <<>> THEN Evaluated(it, Some(ListValue(result)))
    ELSE Bind(evaluate_expression(it, Head(elements)), LAMBDA elem :
           IF elem.result = NONE THEN elem
           ELSE evaluate_elements(elem.it, Tail(elements), Append(result, value(elem.result))))

\* spawn_process_builtin, one argument: evaluated, then asked for its type.
\* arguments[argument_count] is read unchecked.
argument(it, arguments, argument_count, type) ==
    IF argument_count >= Len(arguments)
    THEN Evaluated(IF it.ub = "abort" THEN abort(it, "out_of_range") ELSE it, NONE)
    ELSE Bind(evaluate_expression(it, arguments[argument_count + 1]), LAMBDA arg :
           IF has_value(arg.result) /\ value(arg.result).type # type
           THEN Evaluated(arg.it, NONE)
           ELSE arg)

\* spawn_process_builtin once the four arguments are there
spawn_process_with(it, process_name, pid, arrival, values) ==
    Bind(events_of_values(it, values), LAMBDA events :
      IF events.aborted THEN Evaluated(abort(it, "out_of_range"), NONE)
      ELSE IF ~has_value(events.events) THEN Evaluated(it, NONE)
      ELSE Evaluated([it EXCEPT !.sim = emplace_process(@, process_name, pid, arrival,
                                                        value(events.events))],
                     Some(Monostate)))

\* Interpreter::spawn_process_builtin: a count of arguments other than 4 is
\* reported and the call goes on
Interpreter_spawn_process_builtin(it, arguments) ==
    Bind(argument(it, arguments, 0, "string"), LAMBDA process_name :
      IF process_name.result = NONE THEN process_name
      ELSE Bind(argument(process_name.it, arguments, 1, "number"), LAMBDA pid :
        IF pid.result = NONE THEN pid
        ELSE Bind(argument(pid.it, arguments, 2, "number"), LAMBDA arrival :
          IF arrival.result = NONE THEN arrival
          ELSE Bind(argument(arrival.it, arguments, 3, "list"), LAMBDA lst :
            IF lst.result = NONE THEN lst
            ELSE spawn_process_with(lst.it, value(process_name.result).v,
                                    value(pid.result).v, value(arrival.result).v,
                                    value(lst.result).v)))))

\* Interpreter::builtin_handler
builtin_handler(it, name, arguments) ==
    IF name = <<"s","p","a","w","n","_","p","r","o","c","e","s","s">>
    THEN Interpreter_spawn_process_builtin(it, arguments)
    ELSE IF name = <<"s","p","a","w","n","_","r","a","n","d","o","m","_",
                     "p","r","o","c","e","s","s">>
    THEN spawn_random_process_builtin(it, arguments)
    ELSE Evaluated(it, Some(Monostate))

\* evalute_for_expression, one pass over the body: the results are dropped
for_body(it, body, k) ==
    IF k > Len(body) \/ it.sim.status # "ok" THEN it
    ELSE for_body(evaluate_expression(it, body[k]).it, body, k + 1)

\* the loop `for (i = start; i <= end; ++i)`, which runs once more
RECURSIVE for_iterations_inclusive(_, _, _, _)
for_iterations_inclusive(it, body, i, end) ==
    IF ~(i <= end) \/ it.sim.status # "ok" THEN it
    ELSE for_iterations_inclusive(for_body(it, body, 1), body, i + 1, end)

\* evalute_for_expression, the loop `for (i = start; i < end; ++i)`
for_iterations(it, body, i, end) ==
    IF ~(i < end) \/ it.sim.status # "ok" THEN it
    ELSE for_iterations(for_body(it, body, 1), body, i + 1, end)

\* Interpreter::evalute_for_expression
evalute_for_expression(it, four) ==
    IF it.expressions[four.range + 1].kind.tag # "Range" THEN Evaluated(it, NONE)
    ELSE IF ~has_value(parse_number(it.expressions[four.range + 1].kind.start.lexeme))
            \/ ~has_value(parse_number(it.expressions[four.range + 1].kind.end.lexeme))
    THEN Evaluated(it, NONE)
    ELSE Evaluated(
           for_iterations(it, four.body,
                          value(parse_number(it.expressions[four.range + 1].kind.start.lexeme)),
                          value(parse_number(it.expressions[four.range + 1].kind.end.lexeme))),
           Some(Monostate))

\* evaluate_expression, the visitor chosen by the alternative held
visit(it, kind) ==
    CASE kind.tag = "Call" ->
           IF is_builtin(kind.identifier)
           THEN builtin_handler(it, kind.identifier.lexeme, kind.arguments)
           ELSE Evaluated(abort(it, "assert_interpreter"), NONE)
      [] kind.tag = "StringLiteral" -> Evaluated(it, Some(StringValue(kind.literal.lexeme)))
      [] kind.tag = "Number" ->
           IF ~has_value(parse_number(kind.number.lexeme)) THEN Evaluated(it, NONE)
           ELSE Evaluated(it, Some(NumberValue(value(parse_number(kind.number.lexeme)))))
      [] kind.tag \in {"List", "Tuple"} -> evaluate_elements(it, kind.elements, <<>>)
      [] kind.tag = "Variable" -> Evaluated(it, Some(StringValue(kind.name.lexeme)))
      [] kind.tag = "Constant" -> constant_visitor(it, kind)
      [] kind.tag = "Range" -> range_visitor(it, kind)
      [] kind.tag = "For" -> evalute_for_expression(it, kind)

\* the trace gains the expression and whether it gave a value
traced(outcome, id) ==
    IF outcome.it.sim.status # "ok" THEN Evaluated(outcome.it, NONE)
    ELSE Evaluated([outcome.it EXCEPT
                      !.trace = Append(@, [id |-> id, ok |-> has_value(outcome.result),
                                           heap |-> Len(outcome.it.sim.heap)])],
                   outcome.result)

\* Interpreter::evaluate_expression on ast.expression_by_id(id)
evaluate_expression(it, id) ==
    IF it.sim.status # "ok" THEN Evaluated(it, NONE)
    ELSE traced(visit(it, it.expressions[id + 1].kind), id)

\* Interpreter::evaluate_statement
evaluate_statement(it, statement) ==
    Bind(evaluate_expression(it, statement.kind), LAMBDA expr :
      Evaluated(expr.it, Some(has_value(expr.result))))

\* Interpreter::evaluate_ast, the loop over statements[k..]
RECURSIVE evaluate_ast_from(_, _, _, _)
evaluate_ast_from(it, statements, k, failed) ==
    IF it.sim.status # "ok" THEN Evaluated(it, NONE)
    ELSE IF k > Len(statements) THEN Evaluated(it, Some(failed))
    ELSE Bind(evaluate_statement(it, statements[k]), LAMBDA statement :
           IF statement.result = NONE THEN Evaluated(statement.it, NONE)
           ELSE evaluate_ast_from(statement.it, statements, k + 1,
                                  failed \/ value(statement.result)))

\* Interpreter::evaluate_ast
evaluate_ast(it, statements) == evaluate_ast_from(it, statements, 1, FALSE)

\* the interpreter object eval constructs
Interpreter(s, expressions, pids, draws, usage, ub) ==
    [sim |-> s, expressions |-> expressions, spawned_pids |-> pids, trace |-> <<>>,
     draws |-> draws, drawn |-> 0, usage |-> usage, ub |-> ub]

\* what a call of eval leaves behind
Left(s, lexed, statements, expressions, pids, trc, returned) ==
    [sim |-> s, tokens |-> lexed,
     ast |-> [statements |-> statements, expressions |-> expressions],
     spawned_pids |-> pids, trace |-> trc, returned |-> returned]

\* Interpreter::eval on the simulation s: what lex, parse and evaluate_ast
\* leave behind and the value returned; an assert that fails leaves no value
eval(s, content, pids, draws, usage, ub) ==
    Bind(lex(content), LAMBDA lexed :
      IF lexed.status # "ok"
      THEN Left([s EXCEPT !.status = lexed.status], lexed.tokens, <<>>, <<>>, pids, <<>>, NONE)
      ELSE Bind(parse(lexed.tokens), LAMBDA parsed :
        IF parsed.status # "ok"
        THEN Left([s EXCEPT !.status = parsed.status], lexed.tokens, parsed.statements,
                  parsed.expressions, pids, <<>>, NONE)
        ELSE Bind(evaluate_ast(Interpreter(s, parsed.expressions, pids, draws, usage, ub),
                               parsed.statements), LAMBDA done :
               Left(done.it.sim, lexed.tokens, parsed.statements, parsed.expressions,
                    done.it.spawned_pids, done.it.trace,
                    IF done.it.sim.status # "ok" THEN NONE
                    ELSE Some(has_value(done.result))))))

\* ------------------------------------------------------------ the inputs
Cpu(d) == <<<<"C","p","u">>, d>>
Io(d)  == <<<<"i","o">>, d>>
IO(d)  == <<<<"I","O">>, d>>

\* the event lists the scripts pass to spawn_process
EventLists ==
    { <<>>,
      <<Cpu(0)>>,
      <<Cpu(MaxQuantum + 2)>>,
      <<Io(1), Cpu(1)>>,
      <<Cpu(1), IO(2)>> }

Usages == {50}

\* ------------------------------------------------------------ the machine
\* the member initialisers of the four limits of Scheduler
NoLimits ==
    /\ max_processes = SIZE_MAX
    /\ max_events_per_process = SIZE_MAX
    /\ max_single_event_duration = SIZE_MAX
    /\ max_arrival_time = SIZE_MAX

\* no script has been evaluated
NoScript ==
    /\ spawned_pids = <<>>
    /\ file_content = <<>>
    /\ tokens = <<>>
    /\ ast = [statements |-> <<>>, expressions |-> <<>>]
    /\ evaluated = NONE
    /\ trace = <<>>

Init ==
    /\ threads_count \in 1 .. MaxThreads
    /\ quantum = MaxQuantum
    /\ heap = <<>>
    /\ running = [i \in Slots |-> NULL]
    /\ processes = [i \in Slots |-> <<>>]
    /\ waiting = [i \in Slots |-> <<>>]
    /\ ready = [i \in Slots |-> <<>>]
    /\ timer = 0
    /\ cpu_usage = [i \in Slots |-> 0]
    /\ next_thread = 0
    /\ throughput = <<0, 1>>
    /\ previous_finished_count = 0
    /\ finished = <<>>
    /\ status = "ok"
    /\ spawned = <<>>
    /\ ticks = <<>>
    /\ rejected = {}
    /\ placement = <<>>
    /\ last_op = "init"
    /\ NoLimits
    /\ NoScript

\* the script statement spawn_process(name, pid, arrival, list)
SpawnProcess(name, pid, arrival, list, usage) ==
    /\ status = "ok"
    /\ Len(heap) < MaxProcs
    /\ timer <= MaxSpawnTimer
    /\ Install(spawn_process_builtin(Sim, name, pid, arrival, list, usage), "spawn")

\* one call of Scheduler::step
Step ==
    /\ status = "ok"
    /\ timer < MaxTimer
    /\ Install(step(Sim), "step")

Next ==
    \/ \E pid \in 1 .. MaxPid, arrival \in 0 .. MaxArrival, list \in EventLists :
         \E usage \in [1 .. Len(list) -> Usages] :
            SpawnProcess("P", pid, arrival, list, usage)
    \/ Step

Spec == Init /\ [][Next]_vars

\* ------------------------------------------------- the command-line driver
\* main: the script is evaluated on a fresh simulation, then
\* `while (!sim.complete()) { sim.step(); }` runs.

\* the event lists of the driver's scripts
DriverLists ==
    { <<>>,
      <<Cpu(1)>>,
      <<Cpu(2)>>,
      <<Cpu(3)>>,
      <<Cpu(2), Io(2), Cpu(1)>> }

DriverArrivals == {0, MaxDriverArrival}

\* no run of valid processes takes this many steps (see LoopBound)
DriverCap == MaxDriverArrival + 5 * MaxProcs + 2

DriverInit ==
    /\ threads_count \in 1 .. MaxThreads
    /\ quantum \in {MaxQuantum, DefaultQuantum}
    /\ heap = <<>>
    /\ running = [i \in Slots |-> NULL]
    /\ processes = [i \in Slots |-> <<>>]
    /\ waiting = [i \in Slots |-> <<>>]
    /\ ready = [i \in Slots |-> <<>>]
    /\ timer = 0
    /\ cpu_usage = [i \in Slots |-> 0]
    /\ next_thread = 0
    /\ throughput = <<0, 1>>
    /\ previous_finished_count = 0
    /\ finished = <<>>
    /\ status = "ok"
    /\ spawned = <<>>
    /\ ticks = <<>>
    /\ rejected = {}
    /\ placement = <<>>
    /\ last_op = "init"
    /\ NoLimits
    /\ NoScript

\* a spawn_process call of the script; the script ends before the loop starts
DriverSpawn(name, pid, arrival, list, usage) ==
    /\ status = "ok"
    /\ last_op # "step"
    /\ Len(heap) < MaxProcs
    /\ Install(spawn_process_builtin(Sim, name, pid, arrival, list, usage), "spawn")

\* one iteration of `while (!sim.complete()) { sim.step(); }`
DriverStep ==
    /\ status = "ok"
    /\ ~complete(Sim)
    /\ timer < DriverCap
    /\ Install(step(Sim), "step")

DriverNext ==
    \/ \E pid \in 1 .. MaxPid, arrival \in DriverArrivals, list \in DriverLists :
         \E usage \in [1 .. Len(list) -> Usages] :
            DriverSpawn("P", pid, arrival, list, usage)
    \/ DriverStep

DriverSpec == DriverInit /\ [][DriverNext]_vars

\* ------------------------------------------------ several processes per core
\* The driver again, with scripts that put up to MaxQueued processes on one or
\* two cores, each with a pid of its own, and a quantum that is shorter than
\* some of the bursts: RoundRobinPolicy { .quantum = 1 } or { .quantum = 3 }.

\* the event lists of these scripts
QueuedLists ==
    { <<Cpu(1)>>,
      <<Cpu(2)>>,
      <<Cpu(7)>>,
      <<Io(1), Io(1)>>,
      <<Cpu(1), Io(1), Cpu(1)>> }

\* no run of these processes takes this many steps
QueuedCap == 1 + 7 * MaxQueued + 2

QueuedInit ==
    /\ threads_count \in 1 .. MaxThreads
    /\ quantum \in {MaxQuantum, 3}
    /\ heap = <<>>
    /\ running = [i \in Slots |-> NULL]
    /\ processes = [i \in Slots |-> <<>>]
    /\ waiting = [i \in Slots |-> <<>>]
    /\ ready = [i \in Slots |-> <<>>]
    /\ timer = 0
    /\ cpu_usage = [i \in Slots |-> 0]
    /\ next_thread = 0
    /\ throughput = <<0, 1>>
    /\ previous_finished_count = 0
    /\ finished = <<>>
    /\ status = "ok"
    /\ spawned = <<>>
    /\ ticks = <<>>
    /\ rejected = {}
    /\ placement = <<>>
    /\ last_op = "init"
    /\ NoLimits
    /\ NoScript

\* the k-th spawn_process call of the script passes pid k
QueuedSpawn(name, arrival, list, usage) ==
    /\ status = "ok"
    /\ last_op # "step"
    /\ Len(heap) < MaxQueued
    /\ Install(spawn_process_builtin(Sim, name, Len(heap) + 1, arrival, list, usage), "spawn")

\* one iteration of `while (!sim.complete()) { sim.step(); }`
QueuedStep ==
    /\ status = "ok"
    /\ ~complete(Sim)
    /\ timer < QueuedCap
    /\ Install(step(Sim), "step")

QueuedNext ==
    \/ \E arrival \in 0 .. MaxArrival, list \in QueuedLists :
         \E usage \in [1 .. Len(list) -> Usages] :
            QueuedSpawn("P", arrival, list, usage)
    \/ QueuedStep

QueuedSpec == QueuedInit /\ [][QueuedNext]_vars

\* ------------------------------------------------------- script evaluation
\* main as far as the script goes: Interpreter::eval on a fresh simulation.

\* `spawn_process("P", 1, 0, [("Cpu", 1)])` and the like, then a blank
SpawnText(arguments) ==
    <<"s","p","a","w","n","_","p","r","o","c","e","s","s","(">> \o arguments \o <<")", " ">>

\* the four arguments of a call that is in order
GoodArguments == <<"\"","P","\"",","," ","1",","," ","0",","," ","[","(","\"","C","p","u","\"",","," ","1",")","]">>

\* the four arguments of a call that is in order and lists no event
NoEvents == <<"\"","P","\"",","," ","1",","," ","0",","," ","[","]">>

\* `spawn_random_process() `
RandomText == <<"s","p","a","w","n","_","r","a","n","d","o","m","_","p","r","o","c","e","s","s","(",")"," ">>

\* `name :: n `
ConstantText(name, n) == name \o <<" ", ":", ":", " ", Digits[n + 1], " ">>

\* `for a..b { body } `
ForText(a, b, body) ==
    <<"f","o","r"," ", Digits[a + 1], ".", ".", Digits[b + 1], " ", "{", " ">>
      \o body \o <<"}", " ">>

\* calls of spawn_process that are in error, by what is wrong with them
BadArguments ==
    [ five    |-> <<"\"","P","\"",","," ","1",","," ","0",","," ","[","]",","," ","7">>,
      three   |-> <<"\"","P","\"",","," ","1",","," ","0">>,
      name    |-> <<"1",","," ","1",","," ","0",","," ","[","(","\"","C","p","u","\"",","," ","1",")","]">>,
      pid     |-> <<"\"","P","\"",","," ","\"","1","\"",","," ","0",","," ","[","(","\"","C","p","u","\"",","," ","1",")","]">>,
      events  |-> <<"\"","P","\"",","," ","1",","," ","0",","," ","1">>,
      element |-> <<"\"","P","\"",","," ","1",","," ","0",","," ","[","(","1",","," ","1",")","]">>,
      tag     |-> <<"\"","P","\"",","," ","1",","," ","0",","," ","[","(","\"","G","p","u","\"",","," ","1",")","]">> ]

\* statements that are in error otherwise
BadStatements ==
    [ constant |-> <<"m","a","x","_","p","i","d","s"," ",":",":"," ","1"," ">>,
      builtin  |-> <<"s","p","a","w","n","(",")"," ">>,
      token    |-> <<"}"," ">>,
      bracket  |-> <<"[","1",","," ">> ]

\* all texts of at most n characters of the alphabet
RECURSIVE Texts(_, _)
Texts(alphabet, n) ==
    IF n = 0 THEN {<<>>}
    ELSE Texts(alphabet, n - 1)
           \cup {Append(text, c) : text \in Texts(alphabet, n - 1), c \in alphabet}

\* n copies of text
RECURSIVE Repeated(_, _)
Repeated(text, n) == IF n = 0 THEN <<>> ELSE text \o Repeated(text, n - 1)

\* `for a..b { n calls } ` followed by m calls
LoopScript(a, b, n, m) ==
    ForText(a, b, Repeated(SpawnText(NoEvents), n)) \o Repeated(SpawnText(GoodArguments), m)

LoopScripts ==
    {LoopScript(a, b, n, m) :
        a \in 0 .. MaxRange, b \in 0 .. MaxRange, n \in 0 .. MaxBody, m \in 0 .. 1}

ErrorScripts ==
    {SpawnText(BadArguments[k]) \o Repeated(SpawnText(GoodArguments), m) :
        k \in DOMAIN BadArguments, m \in 0 .. 1}
      \cup {BadStatements[k] \o Repeated(SpawnText(GoodArguments), m) :
              k \in DOMAIN BadStatements, m \in 0 .. 1}
      \cup {ForText(0, 1, SpawnText(BadArguments[k])) \o Repeated(SpawnText(GoodArguments), m) :
              k \in {"five", "three", "events"}, m \in 0 .. 1}
      \cup {SpawnText(GoodArguments) \o SpawnText(BadArguments[k]) : k \in DOMAIN BadArguments}

RandomScripts ==
    {ConstantText(<<"m","a","x","_","p","r","o","c","e","s","s","e","s">>, limits[1])
       \o ConstantText(<<"m","a","x","_","e","v","e","n","t","s","_","p","e","r","_","p","r","o","c","e","s","s">>, limits[2])
       \o ConstantText(<<"m","a","x","_","s","i","n","g","l","e","_","e","v","e","n","t","_","d","u","r","a","t","i","o","n">>, limits[3])
       \o ConstantText(<<"m","a","x","_","a","r","r","i","v","a","l","_","t","i","m","e">>, limits[4])
       \o RandomText \o RandomText :
        limits \in [1 .. 4 -> {0, MaxLimit}]}
      \cup {RandomText \o RandomText}

\* texts the lexer reports or refuses: `: 7 `, `7 : 7 `, `. 7 `, `"P`, `7 "P`,
\* `7 "P" : [`, `+ 7 `
LexErrorScripts ==
    { <<":", " ", "7", " ">>,
      <<"7", " ", ":", " ", "7", " ">>,
      <<".", " ", "7", " ">>,
      <<"\"", "P">>,
      <<"7", " ", "\"", "P">>,
      <<"7", " ", "\"", "P", "\"", " ", ":", " ", "[">>,
      <<"+", " ", "7", " ">> }

Alphabet == {"7", "f", "o", "r", "_", " "}

Scripts ==
    Texts(Alphabet, MaxSourceLen) \cup LoopScripts \cup ErrorScripts \cup RandomScripts
      \cup LexErrorScripts

ScriptInit ==
    /\ threads_count \in 1 .. MaxThreads
    /\ quantum = DefaultQuantum
    /\ heap = <<>>
    /\ running = [i \in Slots |-> NULL]
    /\ processes = [i \in Slots |-> <<>>]
    /\ waiting = [i \in Slots |-> <<>>]
    /\ ready = [i \in Slots |-> <<>>]
    /\ timer = 0
    /\ cpu_usage = [i \in Slots |-> 0]
    /\ next_thread = 0
    /\ throughput = <<0, 1>>
    /\ previous_finished_count = 0
    /\ finished = <<>>
    /\ status = "ok"
    /\ spawned = <<>>
    /\ ticks = <<>>
    /\ rejected = {}
    /\ placement = <<>>
    /\ last_op = "init"
    /\ NoLimits
    /\ spawned_pids = <<>>
    /\ file_content \in Scripts
    /\ tokens = <<>>
    /\ ast = [statements |-> <<>>, expressions |-> <<>>]
    /\ evaluated = NONE
    /\ trace = <<>>

\* what one call of Interpreter::eval leaves behind
InstallEval(done) ==
    /\ InstallSim(done.sim, "eval")
    /\ tokens' = done.tokens
    /\ ast' = done.ast
    /\ spawned_pids' = done.spawned_pids
    /\ trace' = done.trace
    /\ evaluated' = done.returned
    /\ UNCHANGED file_content

\* Interpreter::eval(file_content, sim)
Eval(draws, usage, ub) ==
    /\ last_op = "init"
    /\ \E done \in {eval(Sim, file_content, spawned_pids, draws, usage, ub)} :
          InstallEval(done)

\* a script without the word spawn_random_process never reads the random
\* device: one sequence of draws stands for all of them
Draws ==
    IF <<"s","p","a","w","n","_","r","a","n","d","o","m","_","p","r","o","c","e","s","s">>
         \in {token.lexeme : token \in Range(lex(file_content).tokens)}
    THEN [1 .. MaxDraws -> 0 .. MaxRaw]
    ELSE {[k \in 1 .. MaxDraws |-> 0]}

ScriptNext ==
    \E draws \in Draws, usage \in Usages, ub \in {"abort", "nullopt"} :
        Eval(draws, usage, ub)

ScriptSpec == ScriptInit /\ [][ScriptNext]_vars

\* ------------------------------------------------------------ vocabulary
Procs == 1 .. Len(heap)
Cores == 0 .. (threads_count - 1)

\* the state is one a caller can observe: no call is stuck or aborted
Quiescent == status = "ok"
AfterStep == status = "ok" /\ last_op = "step"

Count(seq, p) == Cardinality({k \in DOMAIN seq : seq[k] = p})

\* number of places of the engine that hold process p
Holdings(p) ==
    LET InSlot(i) == Count(processes[i], p) + Count(ready[i], p) + Count(waiting[i], p)
                     + (IF running[i] = p THEN 1 ELSE 0)
        RECURSIVE Upto(_)
        Upto(i) == IF i < 0 THEN 0 ELSE InSlot(i) + Upto(i - 1)
    IN  Upto(MAX_THREADS - 1)

\* the processes in ready, waiting and running of core i
Active(i) ==
    Range(ready[i]) \cup Range(waiting[i]) \cup (IF running[i] = NULL THEN {} ELSE {running[i]})

RECURSIVE SumDuration(_, _)
SumDuration(events, kind) ==
    IF events = <<>> THEN 0
    ELSE (IF Head(events).kind = kind THEN Head(events).duration ELSE 0)
         + SumDuration(Tail(events), kind)

\* process p was inserted as the specification of emplace_process requires:
\* events not empty, every duration >= 1, arrival not before the timer at
\* insertion, pid different from every other process of its core
ValidProcess(p) ==
    /\ spawned[p] # <<>>
    /\ \A k \in DOMAIN spawned[p] : spawned[p][k].duration >= 1
    /\ heap[p].arrival >= placement[p].inserted
    /\ \A r \in Procs \ {p} :
          placement[r].core = placement[p].core => heap[r].pid # heap[p].pid

\* the sum of the durations of the events a process was inserted with
RECURSIVE TotalDuration(_)
TotalDuration(events) ==
    IF events = <<>> THEN 0 ELSE Head(events).duration + TotalDuration(Tail(events))

RECURSIVE TotalWork(_)
TotalWork(p) == IF p = 0 THEN 0 ELSE TotalDuration(spawned[p]) + TotalWork(p - 1)

\* the number of iterations `while (!complete()) step()` can take: the steps
\* up to the last arrival, then one step per unit of duration
LoopBound ==
    (CHOOSE a \in {0} \cup {heap[p].arrival : p \in Procs} :
        \A p \in Procs : heap[p].arrival <= a)
    + TotalWork(Len(heap)) + 1

\* the events process p was inserted with, as <<kind, duration>> pairs
Bursts(p) == [k \in DOMAIN spawned[p] |-> <<spawned[p][k].kind, spawned[p][k].duration>>]

\* no other process was inserted on the core of process p
AloneOnCore(p) == \A r \in Procs \ {p} : placement[r].core # placement[p].core

\* process p arrives at 0 with one CPU burst that fits in the quantum
ShortBurst(p) ==
    /\ heap[p].arrival = 0
    /\ Len(spawned[p]) = 1 /\ spawned[p][1].kind = "Cpu"
    /\ spawned[p][1].duration >= 1 /\ spawned[p][1].duration <= quantum

\* one core and a single process with the given arrival and bursts
SingleProcess(arrival, bursts) ==
    /\ threads_count = 1 /\ Len(heap) = 1
    /\ heap[1].arrival = arrival /\ Bursts(1) = bursts

\* the entries of seq below t
Before(seq, t) == SelectSeq(seq, LAMBDA x : x < t)

\* the finished processes that carry the given timestamp
Stamped(field) == {k \in DOMAIN finished : has_value(heap[finished[k]][field])}

\* the integer mean of (timestamp - arrival) over the finished processes that
\* carry the timestamp, 0 when there is none
RECURSIVE SumOver(_, _)
SumOver(ks, field) ==
    IF ks = {} THEN 0
    ELSE LET k == CHOOSE x \in ks : TRUE
         IN  value(heap[finished[k]][field]) - heap[finished[k]].arrival
             + SumOver(ks \ {k}, field)

MeanOfStamped(field) ==
    IF Stamped(field) = {} THEN 0
    ELSE SumOver(Stamped(field), field) \div Cardinality(Stamped(field))

\* the timer of the last step in which process p was decremented
LastTick(p) ==
    LET all == Range(ticks[p].cpu) \cup Range(ticks[p].io)
    IN  CHOOSE t \in all : \A u \in all : u <= t

\* ------------------------------------------------------------------ C1
\* C1: when complete() holds every inserted process is in `finished` exactly
\* once, and `finished` only grows by appending.
C1_EveryProcessFinishesOnce ==
    /\ [](Quiescent /\ complete(Sim) => \A p \in Procs : Count(finished, p) = 1)
    /\ [][Len(finished') >= Len(finished)
          /\ \A k \in DOMAIN finished : finished'[k] = finished[k]]_vars

\* ------------------------------------------------------------------ C2
\* C2: at the end of every step no process is held in more than one of
\* processes[i], ready[i], waiting[i], running[i] over all cores, nor twice
\* in one queue.
C2_HeldAtMostOnce == Quiescent => \A p \in Procs : Holdings(p) <= 1

\* a step has left one core with a running process, a ready process that came
\* back from an earlier burst, and a process still in its arrivals
C2_Witness ==
    /\ AfterStep
    /\ \E i \in Cores :
          /\ running[i] # NULL
          /\ processes[i] # <<>>
          /\ \E k \in DOMAIN ready[i] :
                ticks[ready[i][k]].cpu # <<>> \/ ticks[ready[i][k]].io # <<>>

\* ------------------------------------------------------------------ C3
\* C3: at the end of every step every process in ready or running has a
\* non-empty event list with a Cpu front event, every process in waiting a
\* non-empty one with an Io front event, and no kind assertion has failed.
C3_FrontKinds ==
    /\ status # "assert_kind"
    /\ Quiescent =>
         \A i \in Slots :
            /\ \A k \in DOMAIN ready[i] :
                  heap[ready[i][k]].events # <<>> /\ Head(heap[ready[i][k]].events).kind = "Cpu"
            /\ running[i] # NULL =>
                  heap[running[i]].events # <<>> /\ Head(heap[running[i]].events).kind = "Cpu"
            /\ \A k \in DOMAIN waiting[i] :
                  heap[waiting[i][k]].events # <<>> /\ Head(heap[waiting[i][k]].events).kind = "Io"

\* after a step a process that came through an Io burst runs and another waits
C3_Witness ==
    /\ AfterStep
    /\ \E i \in Cores : running[i] # NULL /\ ticks[running[i]].io # <<>>
    /\ \E j \in Cores : \E k \in DOMAIN waiting[j] : ticks[waiting[j][k]].cpu # <<>>

\* ------------------------------------------------------------------ C4
\* C4: under Round Robin a process in running[i] has a front Cpu event of
\* duration <= quantum, so it is decremented at most quantum steps in a row.
C4_RunningWithinQuantum ==
    Quiescent => \A i \in Slots :
        (running[i] # NULL /\ heap[running[i]].events # <<>>)
            => Head(heap[running[i]].events).duration <= quantum

\* ------------------------------------------------------------------ C5
\* C5: start_time is written at most once and never cleared: once set it
\* keeps its value through every later dispatch.
C5_StartTimeWrittenOnce ==
    [][\A p \in Procs : has_value(heap[p].start_time)
                          => heap'[p].start_time = heap[p].start_time]_vars

\* ------------------------------------------------------------------ C6
\* C6: every process in `finished` has finish_time set, to the timer of the
\* step in which its last event drained (last IO burst or last CPU burst).
C6_FinishedHasFinishTime ==
    \A k \in DOMAIN finished :
        /\ has_value(heap[finished[k]].finish_time)
        /\ value(heap[finished[k]].finish_time) = LastTick(finished[k])

\* ------------------------------------------------------------------ C7
\* C7: a process refused at its arrival tick (pid collision or empty event
\* list) is dropped: step() returns and the process is in no queue and not
\* in finished.
C7_RejectedIsDropped ==
    \A p \in rejected : Quiescent /\ Holdings(p) = 0 /\ Count(finished, p) = 0

\* ------------------------------------------------------------------ C8
\* C8: at the end of every step the processes in ready, waiting and running
\* over all cores have pairwise distinct pids.
C8_PidsDistinct ==
    Quiescent =>
        \A i, j \in Slots : \A p \in Active(i), r \in Active(j) :
            p # r => heap[p].pid # heap[r].pid

\* ------------------------------------------------------------------ C9
\* C9: for a process in `finished`, the number of steps in which it was
\* decremented in running equals the sum of its original CPU durations, and
\* the number of steps in which it was decremented in waiting equals the sum
\* of its original IO durations.
C9_TicksEqualBursts ==
    \A k \in DOMAIN finished :
        /\ Cardinality(Range(ticks[finished[k]].cpu)) = SumDuration(spawned[finished[k]], "Cpu")
        /\ Cardinality(Range(ticks[finished[k]].io)) = SumDuration(spawned[finished[k]], "Io")

\* a process whose CPU burst was split and a process with an IO burst finished
C9_Witness ==
    /\ \E k \in DOMAIN finished : SumDuration(spawned[finished[k]], "Cpu") > quantum
    /\ \E k \in DOMAIN finished : SumDuration(spawned[finished[k]], "Io") > 1

\* ------------------------------------------------------------------ C10
\* C10: whatever durations the script's tuples carry, at the end of every
\* step the front event of every process in ready, waiting or running has
\* duration >= 1, and no `duration > 0` assertion fails.
C10_FrontDurationPositive ==
    /\ status # "assert_duration"
    /\ AfterStep =>
         \A i \in Slots : \A p \in Active(i) :
            heap[p].events # <<>> => Head(heap[p].events).duration >= 1

\* ------------------------------------------------------------------ C11
\* C11: in every reachable state, a process whose start_time and finish_time
\* are both set has start_time <= finish_time, and each of the two, when set,
\* is at most the current timer.
C11_TimesOrdered ==
    \A p \in Procs :
        /\ has_value(heap[p].start_time) => value(heap[p].start_time) <= timer
        /\ has_value(heap[p].finish_time) => value(heap[p].finish_time) <= timer
        /\ (has_value(heap[p].start_time) /\ has_value(heap[p].finish_time))
              => value(heap[p].start_time) <= value(heap[p].finish_time)

\* a finished process carries both times, and they differ
C11_Witness ==
    \E k \in DOMAIN finished :
        /\ has_value(heap[finished[k]].start_time)
        /\ has_value(heap[finished[k]].finish_time)
        /\ value(heap[finished[k]].start_time) < value(heap[finished[k]].finish_time)

\* ------------------------------------------------------------------ C12
\* C12: every step() call that returns increases timer by exactly 1, whatever
\* the number of cores and whether any core had work; no other operation
\* (an insertion, or a step that does not return) changes timer.
C12_TimerAdvancesByOne ==
    [][ /\ (last_op' = "step" /\ status' = "ok") => timer' = timer + 1
        /\ last_op' = "spawn" => timer' = timer
        /\ status' # "ok" => timer' = timer ]_vars

\* two steps were taken with several cores, one core decrementing its running
\* process and another core with nothing to do
C12_Witness ==
    /\ AfterStep /\ threads_count > 1 /\ timer = 2
    /\ \E i \in Cores : running[i] # NULL /\ ticks[running[i]].cpu # <<>>
    /\ \E j \in Cores : Active(j) = {} /\ processes[j] = <<>>

\* ------------------------------------------------------------------ C13
\* C13: if every inserted process has a non-empty events queue, durations
\* >= 1, arrival >= timer at insertion and a pid unique on its core, then once
\* the loop `while (!complete()) step()` runs, no step hangs or aborts and
\* the loop ends within LoopBound iterations (each iteration adds 1 to timer,
\* C12, and the loop stops by itself, not by the cap of the model).
C13_DriverTerminates ==
    (last_op = "step" /\ \A p \in Procs : ValidProcess(p)) =>
        /\ status = "ok"
        /\ timer <= LoopBound
        /\ timer < DriverCap

\* the loop ended on valid processes, one with a late arrival, one with an
\* IO burst, one whose CPU burst exceeded the quantum
C13_Witness ==
    /\ AfterStep /\ complete(Sim)
    /\ \A p \in Procs : ValidProcess(p)
    /\ \E p \in Procs : heap[p].arrival > 0
    /\ \E p \in Procs : SumDuration(spawned[p], "Io") > 0
    /\ \E p \in Procs : Len(spawned[p]) = 1 /\ spawned[p][1].duration > quantum

\* ------------------------------------------------------------------ C14
\* C14: in a step that returns, a process of arrivals[i] whose arrival is not
\* the current timer stays in arrivals[i]; a process whose arrival is the
\* current timer leaves arrivals[i] in that step and is pushed to ready[i] if
\* its front event is Cpu and to waiting[i] if it is Io.
C14_LeavesArrivalsOnItsTick ==
    [][ (last_op' = "step" /\ status' = "ok") =>
          \A i \in Slots : \A k \in DOMAIN processes[i] :
             /\ heap[processes[i][k]].arrival # timer =>
                   /\ processes[i][k] \in Range(processes'[i])
                   /\ placement'[processes[i][k]].admitted = NONE
             /\ heap[processes[i][k]].arrival = timer =>
                   /\ processes[i][k] \notin Range(processes'[i])
                   /\ placement'[processes[i][k]].admitted =
                        Some([at |-> timer,
                              queues |-> {<<IF Head(heap[processes[i][k]].events).kind = "Cpu"
                                            THEN "ready" ELSE "waiting", i>>}]) ]_vars

\* a process waited in arrivals through the step at timer 0 and was admitted
\* to ready at timer 1, another one was admitted to waiting
C14_Witness ==
    /\ AfterStep
    /\ \E p \in Procs : /\ heap[p].arrival = 1
                         /\ placement[p].admitted = Some([at |-> 1, queues |-> {<<"ready", placement[p].core>>}])
    /\ \E p \in Procs : /\ has_value(placement[p].admitted)
                         /\ value(placement[p].admitted).queues = {<<"waiting", placement[p].core>>}

\* ------------------------------------------------------------------ C15
\* C15: under any interleaving of emplace_process and step calls, between
\* calls every process in arrivals[i] has arrival >= timer.
C15_ArrivalsNotOverdue ==
    Quiescent =>
        \A i \in Slots : \A k \in DOMAIN processes[i] :
            heap[processes[i][k]].arrival >= timer

\* ------------------------------------------------------------------ C16
\* C16: a process inserted into arrivals[i] is only ever found in arrivals,
\* ready, waiting or running of that same core i (or in finished).
C16_NeverMigrates ==
    \A i \in Slots :
        \A p \in Active(i) \cup Range(processes[i]) : placement[p].core = i

\* with two cores, a process of core 1 went through waiting[1] and running[1]
\* and finished, while core 0 is running a process of its own
C16_Witness ==
    /\ AfterStep /\ threads_count = 2
    /\ running[0] # NULL /\ ticks[running[0]].cpu # <<>>
    /\ \E k \in DOMAIN finished :
          /\ placement[finished[k]].core = 1
          /\ ticks[finished[k]].cpu # <<>> /\ ticks[finished[k]].io # <<>>

\* ------------------------------------------------------------------ C17
\* C17: the k-th emplace_process call (k = 0, 1, ...) appends the process at
\* the back of arrivals[k mod T] and leaves next_thread == (k + 1) mod T; it
\* changes no ready, waiting or running slot, nor finished or timer.
C17_RoundRobinInsertion ==
    [][ last_op' = "spawn" =>
          /\ Len(heap') = Len(heap) + 1
          /\ processes' = [processes EXCEPT
                             ![Len(heap) % threads_count] = Append(@, Len(heap) + 1)]
          /\ next_thread' = (Len(heap) + 1) % threads_count
          /\ UNCHANGED <<ready, waiting, running, finished, timer>> ]_vars

\* the insertion wrapped around: the third process went to core 0 again,
\* behind the first one, after a step had been taken
C17_Witness ==
    /\ last_op = "spawn" /\ threads_count = 2 /\ timer = 1
    /\ Len(heap) = 3 /\ next_thread = 1
    /\ processes[0] = <<1, 3>>

\* ------------------------------------------------------------------ C18
\* C18: a process alone on its core, with arrival 0 and a single CPU burst of
\* duration d (1 <= d <= quantum), occupies running[i] after each of the steps
\* 1..d and after step d+1 is in finished; when every process is of that kind
\* complete() holds once timer is the longest d plus 1 (and not before).
C18_ShortBurstTimeline ==
    AfterStep =>
      \A p \in Procs : (AloneOnCore(p) /\ ShortBurst(p)) =>
         /\ timer <= spawned[p][1].duration =>
               running[placement[p].core] = p /\ Count(finished, p) = 0
         /\ timer > spawned[p][1].duration =>
               Count(finished, p) = 1 /\ Holdings(p) = 0
         /\ (\A r \in Procs : /\ AloneOnCore(r) /\ ShortBurst(r)
                                /\ spawned[r][1].duration <= spawned[p][1].duration)
               => (complete(Sim) <=> timer = spawned[p][1].duration + 1)

\* two bursts of 2 on two cores ended the run with timer 3
C18_Witness ==
    /\ AfterStep /\ complete(Sim)
    /\ \A p \in Procs : AloneOnCore(p) /\ ShortBurst(p)
    /\ Len(heap) = 2 /\ spawned[1][1].duration = 2 /\ spawned[2][1].duration = 2
    /\ timer = 3 /\ Range(finished) = {1, 2}

\* ------------------------------------------------------------------ C19
\* C19 (as stated): with one core and the single process B, arrival 0, bursts
\* [(Cpu,2),(Io,2),(Cpu,1)], the CPU bursts are decremented in the steps at
\* timer 0, 1 and 4, the IO burst in the steps at timer 2 and 3, and the run
\* is complete with timer == 5 and finished == [B].
C19_TimelineAsStated ==
    (Quiescent /\ SingleProcess(0, << <<"Cpu", 2>>, <<"Io", 2>>, <<"Cpu", 1>> >>)) =>
        /\ ticks[1].cpu = Before(<<0, 1, 4>>, timer)
        /\ ticks[1].io = Before(<<2, 3>>, timer)
        /\ timer <= 5
        /\ timer = 5 => complete(Sim) /\ finished = <<1>>

\* C19 (amended): with one core and the single process B, arrival 0, bursts
\* [(Cpu,2),(Io,2),(Cpu,1)], B enters running in the step at timer 0 without
\* being decremented; its first CPU burst is decremented in the steps at timer
\* 1 and 2 (then B is in waiting), its IO burst in the steps at timer 3 and 4
\* (then B is in running again), its last CPU burst in the step at timer 5,
\* where B finishes: complete() first holds with timer == 6, finished == [B].
C19_Timeline ==
    (Quiescent /\ SingleProcess(0, << <<"Cpu", 2>>, <<"Io", 2>>, <<"Cpu", 1>> >>)) =>
        /\ ticks[1].cpu = Before(<<1, 2, 5>>, timer)
        /\ ticks[1].io = Before(<<3, 4>>, timer)
        /\ timer \in {1, 2, 5} => running[0] = 1 /\ waiting[0] = <<>>
        /\ timer \in {3, 4} => running[0] = NULL /\ waiting[0] = <<1>>
        /\ timer <= 6
        /\ complete(Sim) <=> timer = 6
        /\ timer = 6 => finished = <<1>>

\* the run of B ended
C19_Witness ==
    /\ AfterStep /\ complete(Sim)
    /\ SingleProcess(0, << <<"Cpu", 2>>, <<"Io", 2>>, <<"Cpu", 1>> >>)
    /\ finished = <<1>> /\ timer = 6

\* ------------------------------------------------------------------ C20
\* C20 (as stated): with one core and the single process D, arrival a = 5,
\* bursts [(Cpu,1)], ready, waiting and running are empty after each of the
\* steps at timer 0 .. a-1, D is admitted in the step at timer == a, and
\* complete() holds when timer == a + 1.
C20_LateArrivalAsStated ==
    (Quiescent /\ SingleProcess(MaxDriverArrival, << <<"Cpu", 1>> >>)) =>
        /\ timer <= heap[1].arrival => Active(0) = {} /\ placement[1].admitted = NONE
        /\ timer > heap[1].arrival =>
              has_value(placement[1].admitted)
              /\ value(placement[1].admitted).at = heap[1].arrival
        /\ timer = heap[1].arrival + 1 => complete(Sim)

\* C20 (amended): with one core and the single process D, arrival a = 5,
\* bursts [(Cpu,1)], ready, waiting and running are empty after each of the
\* steps at timer 0 .. a-1, D is admitted in the step at timer == a and is in
\* running, not yet decremented, when timer == a + 1; it is decremented and
\* finishes in the step at timer == a + 1, so complete() first holds when
\* timer == a + 2.
C20_LateArrivalTimeline ==
    (Quiescent /\ SingleProcess(MaxDriverArrival, << <<"Cpu", 1>> >>)) =>
        /\ timer <= heap[1].arrival => Active(0) = {} /\ placement[1].admitted = NONE
        /\ timer > heap[1].arrival =>
              has_value(placement[1].admitted)
              /\ value(placement[1].admitted).at = heap[1].arrival
        /\ timer = heap[1].arrival + 1 => running[0] = 1 /\ ticks[1].cpu = <<>>
        /\ timer <= heap[1].arrival + 2
        /\ complete(Sim) <=> timer = heap[1].arrival + 2
        /\ timer = heap[1].arrival + 2 =>
              finished = <<1>> /\ ticks[1].cpu = <<heap[1].arrival + 1>>

\* the run of D ended
C20_Witness ==
    /\ AfterStep /\ complete(Sim)
    /\ SingleProcess(MaxDriverArrival, << <<"Cpu", 1>> >>)
    /\ heap[1].arrival = 5 /\ timer = 7 /\ finished = <<1>>

\* ------------------------------------------------------------------ C21
\* C21: average_waiting_time() is the integer mean of (start_time - arrival)
\* over exactly the finished processes that have a start_time, and
\* average_turnaround_time() is the integer mean of (finish_time - arrival)
\* over exactly the finished processes that have a finish_time; a lone process
\* with one CPU burst of 3 arriving at 0 yields turnaround 3.
C21_AveragesOverStamped ==
    Quiescent =>
        /\ average_waiting_time(Sim) = MeanOfStamped("start_time")
        /\ average_turnaround_time(Sim) = MeanOfStamped("finish_time")
        /\ (finished = <<1>> /\ heap[1].arrival = 0 /\ Bursts(1) = << <<"Cpu", 3>> >>)
              => average_turnaround_time(Sim) = 3

\* ------------------------------------------------------------------ C22
\* C22: at the end of every step, for every core i < T, cpu_usage[i] is the
\* resource_usage of the front event of running[i] if running[i] holds a
\* process, and 0 if running[i] is empty.
C22_UsageFollowsRunning ==
    AfterStep =>
        \A i \in Cores :
            cpu_usage[i] = IF running[i] # NULL /\ heap[running[i]].events # <<>>
                           THEN Head(heap[running[i]].events).resource_usage
                           ELSE 0

\* ------------------------------------------------------------------ C23
\* C23: after every step that returns, throughput is finished.size(), counted
\* after all cores were processed, divided by the value timer had when the
\* step began, and 0 when that value was 0.
C23_ThroughputOfStep ==
    [][ (last_op' = "step" /\ status' = "ok") =>
          throughput' = IF timer # 0 THEN <<Len(finished'), timer>> ELSE <<0, 1>> ]_vars

\* with two cores, a process of the last core has finished and the
\* throughput is not zero
C23_Witness ==
    /\ AfterStep /\ threads_count = 2
    /\ \E k \in DOMAIN finished : placement[finished[k]].core = 1
                                  /\ LastTick(finished[k]) = timer - 1
    /\ throughput = <<Len(finished), timer - 1>>

\* ------------------------------------------------------------------ C24
\* C24: complete() is true exactly when every arrivals, ready and waiting
\* queue is empty and every running slot is null; a step taken when
\* complete() holds leaves all queues, all running slots and finished
\* unchanged, and complete() still holds after it.
C24_CompleteIsStable ==
    [][ /\ complete(Sim) <=>
              \A i \in Slots : /\ processes[i] = <<>> /\ ready[i] = <<>>
                                /\ waiting[i] = <<>> /\ running[i] = NULL
        /\ (complete(Sim) /\ last_op' = "step") =>
              /\ UNCHANGED <<processes, ready, waiting, running, finished>>
              /\ status' = "ok"
              /\ timer' = timer + 1 ]_vars

\* two steps were taken after the last process finished
C24_Witness ==
    /\ AfterStep /\ complete(Sim) /\ finished # <<>>
    /\ \A p \in Procs : Count(finished, p) = 1 /\ timer >= LastTick(p) + 3

\* --------------------------------------------------- script vocabulary
\* Interpreter::eval has been called (and returned or aborted)
AfterEval == last_op = "eval"

\* the tokens that are numbers, identifiers or keywords
WordTokens(toks) ==
    SelectSeq(toks, LAMBDA token : token.kind \in {"Number", "Identifier", "Keyword"})

\* where the run of digits (or of alphanumeric/underscore characters) that
\* holds text[i] ends: the first index after it
RECURSIVE RunEnd(_, _, _)
RunEnd(text, i, digits) ==
    IF i > Len(text) THEN i
    ELSE IF digits /\ ~isdigit(text[i]) THEN i
    ELSE IF ~digits /\ ~(isalnum(text[i]) \/ text[i] = "_") THEN i
    ELSE RunEnd(text, i + 1, digits)

\* the token a run text[i..e-1] stands for
RunToken(text, i, e, digits) ==
    Token(SubSeq(text, i, e - 1),
          IF digits THEN "Number"
          ELSE IF is_keyword(SubSeq(text, i, e - 1)) THEN "Keyword" ELSE "Identifier",
          i - 1, e - 1)

\* the maximal runs of text[i..], read from the left, as tokens
RECURSIVE Runs(_, _)
Runs(text, i) ==
    IF i > Len(text) THEN <<>>
    ELSE IF isdigit(text[i])
    THEN <<RunToken(text, i, RunEnd(text, i, TRUE), TRUE)>> \o Runs(text, RunEnd(text, i, TRUE))
    ELSE IF isalpha(text[i])
    THEN <<RunToken(text, i, RunEnd(text, i, FALSE), FALSE)>> \o Runs(text, RunEnd(text, i, FALSE))
    ELSE Runs(text, i + 1)

\* ------------------------------------------------------------------ C30
\* C30: for every source text (here: without string literals, and which the
\* lexer reads to its end), each maximal run of digits yields exactly one
\* Number token and each run of alphanumeric/underscore characters starting
\* with a letter exactly one Keyword or Identifier token, with the run as
\* lexeme and span, also when the run ends at the end of the input.
C30_RunsBecomeTokens ==
    (AfterEval /\ status # "assert_lexer" /\ "\"" \notin Range(file_content))
        => WordTokens(tokens) = Runs(file_content, 1)

\* the expression of the Ast with this id
ExpressionById(id) == ast.expressions[id + 1]

\* the expression is a call of spawn_process with four arguments
IsSpawnCall(expr) ==
    /\ expr.kind.tag = "Call"
    /\ expr.kind.identifier.lexeme = <<"s","p","a","w","n","_","p","r","o","c","e","s","s">>
    /\ Len(expr.kind.arguments) = 4

\* the kind of the expression the first statement holds
FirstStatement == ExpressionById(ast.statements[1].kind).kind

\* the first statement is a For whose body is n calls of spawn_process, in
\* source order
ForOfCalls(n) ==
    /\ FirstStatement.tag = "For"
    /\ Len(FirstStatement.body) = n
    /\ \A j \in 1 .. n : IsSpawnCall(ExpressionById(FirstStatement.body[j]))
    /\ \A j \in 2 .. n : FirstStatement.body[j - 1] < FirstStatement.body[j]

\* ------------------------------------------------------------------ C29
\* C29: for every n >= 0 the text `for a..b { e1 ... en }` parses into one For
\* node whose body lists exactly the n expressions in source order, and the
\* closing brace is consumed: the statement that follows the loop is parsed
\* as it would be without the loop.
C29_ForBodyParsed ==
    \A a \in 0 .. MaxRange, b \in 0 .. MaxRange, n \in 0 .. MaxBody, m \in 0 .. 1 :
        (AfterEval /\ file_content = LoopScript(a, b, n, m))
            => /\ status = "ok"
               /\ Len(ast.statements) = 1 + m
               /\ ForOfCalls(n)
               /\ m = 1 => IsSpawnCall(ExpressionById(ast.statements[2].kind))

\* ------------------------------------------------------------------ C27
\* how often `for a..b` runs its body
Iterations(a, b) == IF b > a THEN b - a ELSE 0

\* the evaluations of the expressions of the loop's body, in the order they
\* were made
BodyTrace == SelectSeq(trace, LAMBDA entry : entry.id \in Range(FirstStatement.body))

\* C27: evaluating `for a..b { body }` evaluates the body expressions, in
\* order, b - a times when b > a and never when b <= a; with a body of one
\* spawn call the loop inserts b - a processes, each evaluation one, and the
\* k-th of them goes to core (k - 1) mod threads_count.
C27_ForRunsBody ==
    \A a \in 0 .. MaxRange, b \in 0 .. MaxRange, n \in 1 .. MaxBody, m \in 0 .. 1 :
        (AfterEval /\ file_content = LoopScript(a, b, n, m))
            => /\ status = "ok"
               /\ [k \in 1 .. Len(BodyTrace) |-> BodyTrace[k].id]
                     = Repeated(FirstStatement.body, Iterations(a, b))
               /\ n = 1 =>
                     /\ Len(heap) = Iterations(a, b) + m
                     /\ \A k \in 1 .. Iterations(a, b) :
                           /\ BodyTrace[k].ok
                           /\ BodyTrace[k].heap = k
                           /\ placement[k].core = (k - 1) % threads_count

\* a loop over 0..3 with one spawn call has put three processes on two cores
\* in turn, before the process of the call that follows the loop
C27_Witness ==
    /\ AfterEval
    /\ file_content = LoopScript(0, 3, 1, 1)
    /\ threads_count = 2
    /\ Len(heap) = 4
    /\ <<placement[1].core, placement[2].core, placement[3].core>> = <<0, 1, 0>>

\* ------------------------------------------------------------------ C26
\* the engine holds no process and the next process goes to core 0, as before
\* the script was evaluated
NothingInserted ==
    /\ heap = <<>>
    /\ \A i \in Slots : processes[i] = <<>>
    /\ next_thread = 0

\* C26: a spawn_process call that is in error (a count of arguments other
\* than 4, an argument or tuple element of the wrong type, an unknown
\* event-kind tag) inserts no process: arrivals and next_thread are after the
\* call what they were before it.
C26_BadCallInsertsNothing ==
    \A k \in DOMAIN BadArguments :
        (AfterEval /\ file_content = SpawnText(BadArguments[k])) => NothingInserted

\* ------------------------------------------------------------------ C25
\* no expression was evaluated with success after one that failed
NothingAfterFailure ==
    \A i \in 1 .. Len(trace), j \in 1 .. Len(trace) :
        (i < j /\ ~trace[i].ok) => ~trace[j].ok

\* C25: when lexing, parsing or evaluating a script hits an error, at top
\* level or inside a for body, Interpreter::eval returns false, no statement
\* after the failing one is evaluated, and the engine holds no process.
C25_ErrorStopsScript ==
    (AfterEval /\ file_content \in ErrorScripts /\ status = "ok")
        => /\ evaluated = Some(FALSE)
           /\ NothingAfterFailure
           /\ NothingInserted

\* ------------------------------------------------------------------ C28
\* the pid and the arrival of process p are within the limits, and no other
\* process has its pid
RandomPidAndArrival(p) ==
    /\ heap[p].pid <= max_processes
    /\ \A r \in 1 .. Len(heap) : r # p => heap[r].pid # heap[p].pid
    /\ heap[p].arrival <= max_arrival_time

\* process p has between 1 and max_events_per_process events, each lasting
\* between 1 and max_single_event_duration
RandomEvents(p) ==
    /\ Len(heap[p].events) >= 1
    /\ Len(heap[p].events) <= max_events_per_process
    /\ \A k \in 1 .. Len(heap[p].events) :
          /\ heap[p].events[k].duration >= 1
          /\ heap[p].events[k].duration <= max_single_event_duration

\* C28: every process inserted by spawn_random_process, for all values of
\* the four limits (0 included), has a pid in [0, max_processes] no earlier
\* call drew, an arrival in [0, max_arrival_time], between 1 and
\* max_events_per_process events, and every duration in
\* [1, max_single_event_duration].
C28_RandomProcessWithinLimits ==
    (AfterEval /\ file_content \in RandomScripts)
        => \A p \in 1 .. Len(heap) : RandomPidAndArrival(p) /\ RandomEvents(p)

\* ------------------------------------------------------------------ C31
\* a `:` or `.` that is not one of a pair (no text of the model holds one
\* inside a string literal)
Solitary(text, c) ==
    \E i \in DOMAIN text :
        /\ text[i] = c
        /\ (i = 1 \/ text[i - 1] # c)
        /\ (i = Len(text) \/ text[i + 1] # c)

\* a string literal that is opened and not closed
Unterminated(text) == Cardinality({i \in DOMAIN text : text[i] = "\""}) % 2 = 1

\* a character that starts no token
StartsNoToken(c) ==
    ~(isalnum(c) \/ isspace(c)
        \/ c \in {"[", "]", ",", "{", "}", "(", ")", ":", ".", "\"", "_"})

LexError(text) ==
    \/ Solitary(text, ":") \/ Solitary(text, ".")
    \/ Unterminated(text)
    \/ \E i \in DOMAIN text : StartsNoToken(text[i])

\* the while loop of Lexer::lex has ended after Len(source) turns: the input
\* is used up, or an assertion has stopped the program
LexEnds(source) ==
    Bind(lex_steps(source, [cursor |-> 0, tokens |-> <<>>, status |-> "ok"], Len(source)),
         LAMBDA lexer : lexer.status # "ok" \/ lexer.cursor >= Len(source))

\* C31: Lexer::lex terminates on every input, and on an input with a lex
\* error (a character that starts no token, a solitary `:` or `.`, an
\* unterminated string literal) it returns no token sequence.
C31_LexErrorReturnsNothing ==
    AfterEval =>
        /\ LexEnds(file_content)
        /\ (LexError(file_content) /\ lex(file_content).status = "ok")
              => Lexer_lex(file_content) = NONE

\* ------------------------------------------------------------------ C32
\* a call of step() would reach line 71 for core i with running[i] empty
\* and invoke the policy: the engine right before that invocation
AtPolicy(i) == advance_queues(step_upto(Sim, i), i)

PolicyInvoked(i) ==
    Quiescent /\ AtPolicy(i).status = "ok" /\ AtPolicy(i).running[i] = NULL

\* C32: a policy invocation made while step() processes core i leaves
\* ready[j], waiting[j], running[j] and arrivals[j] of every other core j as
\* they were.
C32_PolicyTouchesOwnCore ==
    \A i \in Cores : PolicyInvoked(i) =>
        \A j \in Slots \ {i} :
            /\ schedule_policy(AtPolicy(i)).ready[j] = AtPolicy(i).ready[j]
            /\ schedule_policy(AtPolicy(i)).waiting[j] = AtPolicy(i).waiting[j]
            /\ schedule_policy(AtPolicy(i)).running[j] = AtPolicy(i).running[j]
            /\ schedule_policy(AtPolicy(i)).processes[j] = AtPolicy(i).processes[j]

\* ------------------------------------------------------------------ C33
\* the engine after lines 71-75 of the turn of step() for core i
Scheduled(i) == fallback_schedule(invoke_policy(AtPolicy(i), i), i)

\* C33: a process leaves running[i] only in a step whose decrement takes its
\* front Cpu event to 0, and neither the policy nor the fallback of lines
\* 72-75 replaces a process that occupies a running slot.
C33_RunningKeptUntilDrained ==
    /\ [][ (last_op' = "step" /\ status' = "ok") =>
             \A i \in Slots :
                (running[i] # NULL /\ running'[i] # running[i])
                   => Head(heap[running[i]].events).duration = 1 ]_vars
    /\ [](\A i \in Cores : (Quiescent /\ AtPolicy(i).status = "ok") =>
             \A j \in Slots :
                AtPolicy(i).running[j] # NULL
                   => Scheduled(i).running[j] = AtPolicy(i).running[j])

\* ------------------------------------------------------------------ C34
\* C34: the scheduling of a turn of step() fills no running slot of a core
\* whose admission, waiting and running phases of that step are still to
\* come, and a process that enters running[i] in a step is not decremented
\* on the CPU in that step.
C34_ScheduledAfterAdvance ==
    /\ [](\A i \in Cores : (Quiescent /\ AtPolicy(i).status = "ok") =>
             \A j \in Cores :
                j > i => Scheduled(i).running[j] = AtPolicy(i).running[j])
    /\ [][ (last_op' = "step" /\ status' = "ok") =>
             \A i \in Slots :
                (running'[i] # NULL /\ running'[i] # running[i])
                   => timer \notin Range(ticks'[running'[i]].cpu) ]_vars

\* ------------------------------------------------------------------ C35
\* the event list the claim states for a head moved with quantum q
SplitAsStated(events, q) ==
    IF Head(events).duration > q
    THEN <<Event("Cpu", q, Head(events).resource_usage),
           Event("Cpu", Head(events).duration - q, Head(events).resource_usage)>>
           \o Tail(events)
    ELSE events

\* the durations of the events process p still has
Durations(p) == [k \in DOMAIN heap[p].events |-> heap[p].events[k].duration]

\* a burst of 7 under quantum 3, by the number of steps taken: placed with a
\* piece of 3, of 3 again, then of 1
BurstOfSeven ==
    << <<3, 4>>, <<2, 4>>, <<1, 4>>, <<3, 1>>, <<2, 1>>, <<1, 1>>, <<1>>, <<>> >>

\* the only process arrives at 0 with a single Cpu burst of 7, the quantum is 3
SevenUnderThree ==
    /\ Len(heap) = 1 /\ quantum = 3
    /\ heap[1].arrival = 0 /\ Bursts(1) = << <<"Cpu", 7>> >>

\* C35: when the policy moves the head of ready[j] to running[j], a front
\* Cpu event of duration d > quantum becomes a Cpu event of quantum followed
\* by one of d - quantum with the same resource_usage, the rest of the list
\* unchanged, and a front event of d <= quantum leaves the list unchanged; a
\* single burst of 7 under quantum 3 is consumed as 3, 3, 1 over three
\* placements in running.
C35_QuantumSplit ==
    /\ \A i \in Cores :
          (PolicyInvoked(i) /\ schedule_policy(AtPolicy(i)).status = "ok") =>
             \A j \in Cores :
                schedule_policy(AtPolicy(i)).ready[j] # AtPolicy(i).ready[j] =>
                   /\ schedule_policy(AtPolicy(i)).ready[j] = Tail(AtPolicy(i).ready[j])
                   /\ schedule_policy(AtPolicy(i)).running[j] = Head(AtPolicy(i).ready[j])
                   /\ schedule_policy(AtPolicy(i)).heap[Head(AtPolicy(i).ready[j])].events
                        = SplitAsStated(AtPolicy(i).heap[Head(AtPolicy(i).ready[j])].events,
                                        quantum)
    /\ (AfterStep /\ SevenUnderThree) =>
          /\ timer <= 8
          /\ Durations(1) = BurstOfSeven[timer]
          /\ ticks[1].cpu = [k \in 1 .. timer - 1 |-> k]
          /\ timer <= 7 => running[0] = 1
          /\ timer = 8 => finished = <<1>>

\* the burst of 7 has been placed for the third time, with its last piece of
\* 1 left whole, after two pieces of 3 were split off and consumed
C35_Witness ==
    /\ AfterStep /\ SevenUnderThree
    /\ timer = 7 /\ running[0] = 1
    /\ Durations(1) = <<1>>
    /\ ticks[1].cpu = <<1, 2, 3, 4, 5, 6>>

\* ------------------------------------------------------------------ C36
\* the timers of the steps in which process p was decremented, on the CPU
\* and in waiting
Decrements(p) == ticks[p].cpu \o ticks[p].io

\* no entry of seq occurs twice
NoRepeat(seq) == \A k, m \in DOMAIN seq : seq[k] = seq[m] => k = m

\* C36: in one step() every process has its front event decremented at most
\* once; in particular a process whose IO burst ends in the waiting scan and
\* goes on with another IO burst, and a process dispatched from running to
\* waiting, are decremented again in the next step at the earliest.
C36_OneDecrementPerStep ==
    Quiescent => \A p \in Procs : NoRepeat(Decrements(p))

\* a process went through two IO bursts in a row, in two steps, and another
\* one left running for waiting and was decremented there one step later
C36_Witness ==
    /\ AfterStep
    /\ \E p \in Procs :
          /\ Bursts(p) = << <<"Io", 1>>, <<"Io", 1>> >>
          /\ Len(ticks[p].io) = 2 /\ ticks[p].io[2] = ticks[p].io[1] + 1
    /\ \E p \in Procs :
          /\ Len(spawned[p]) = 3
          /\ Len(ticks[p].cpu) >= 1 /\ Len(ticks[p].io) = 1
          /\ ticks[p].io[1] = ticks[p].cpu[1] + 1

\* ------------------------------------------------------------------ C37
\* in the engine s core i is idle only if nothing is ready for it
WorkConserving(s, i) == s.running[i] = NULL => s.ready[i] = <<>>

\* C37: at the end of every step(), for every core i < threads_count, if
\* running[i] is empty then ready[i] is empty; within the turn of a core this
\* holds after lines 71-75 whether the policy scheduled that core or did
\* nothing at all.
C37_WorkConserving ==
    /\ AfterStep => \A i \in Cores : WorkConserving(Sim, i)
    /\ \A i \in Cores : (Quiescent /\ AtPolicy(i).status = "ok") =>
          /\ Scheduled(i).status = "ok" => WorkConserving(Scheduled(i), i)
          /\ WorkConserving(fallback_schedule(AtPolicy(i), i), i)

\* a step ended with a process in running[1] that lines 72-75 put there: the
\* policy returned at the empty ready[0], so the burst was not split and is
\* longer than the quantum
C37_Witness ==
    /\ AfterStep /\ threads_count = 2
    /\ running[0] = NULL /\ ready[0] = <<>>
    /\ running[1] # NULL /\ ready[1] # <<>>
    /\ ticks[running[1]].cpu = <<>>
    /\ Head(heap[running[1]].events).duration > quantum

\* ------------------------------------------------------------------ C38
\* the position of p in seq
Position(seq, p) == CHOOSE k \in DOMAIN seq : seq[k] = p

\* process p sat in ready[i] through the step: it is in the queue before and
\* after and was not decremented in between
Stayed(i, p) ==
    /\ p \in Range(ready[i]) /\ p \in Range(ready'[i])
    /\ ticks'[p] = ticks[p]

\* C38: each ready[i] is served first-in first-out: in a step the processes
\* that leave ready[i] for running[i] are the ones at its head, the ones
\* that stay keep their order, and every process appended in the step (after
\* admission, after a Round-Robin quantum, after an IO burst) is behind all
\* of them.
C38_ReadyIsFifo ==
    [][ (last_op' = "step" /\ status' = "ok") =>
          \A i \in Cores :
             /\ \A k, m \in DOMAIN ready[i] :
                   (k < m /\ Stayed(i, ready[i][k])) => Stayed(i, ready[i][m])
             /\ \A k, m \in DOMAIN ready'[i] :
                   (k < m /\ Stayed(i, ready'[i][m])) =>
                      /\ Stayed(i, ready'[i][k])
                      /\ Position(ready[i], ready'[i][k]) < Position(ready[i], ready'[i][m]) ]_vars

\* a ready queue holds a process that has not run yet, behind it one that
\* came back from an IO burst, behind that one re-queued after its quantum
C38_Witness ==
    /\ AfterStep
    /\ \E i \in Cores :
          /\ Len(ready[i]) = 3 /\ running[i] # NULL
          /\ Decrements(ready[i][1]) = <<>>
          /\ ticks[ready[i][2]].io # <<>>
          /\ ticks[ready[i][3]].cpu # <<>> /\ ticks[ready[i][3]].io = <<>>

\* ------------------------------------------------------------------ C39
\* C39: every call of spawn_random_process returns, whatever max_processes
\* is and however many calls were made before: the loop that redraws the pid
\* is never left without a pid it can end on.
C39_RandomSpawnReturns ==
    last_op = "eval" => status # "hung"

\* ------------------------------------------------------------------ C40
\* the timestamp is not set, or not before the arrival of the process
NotBeforeArrival(p, field) ==
    has_value(heap[p][field]) => value(heap[p][field]) >= heap[p].arrival

\* C40: whenever start_time or finish_time of a process is set it is >= the
\* arrival of the process, so neither start_time - arrival nor
\* finish_time - arrival, as average_waiting_time and
\* average_turnaround_time compute them in size_t, is below zero.
C40_StampsNotBeforeArrival ==
    /\ \A p \in Procs :
          NotBeforeArrival(p, "start_time") /\ NotBeforeArrival(p, "finish_time")
    /\ Quiescent =>
          /\ total_waiting_time(Sim, 1) >= 0
          /\ total_turnaround_time(Sim, 1) >= 0

\* a process that arrived at 1 is finished with both timestamps set, and
\* another process carries a start_time stamped again after its arrival
C40_Witness ==
    /\ AfterStep
    /\ \E k \in DOMAIN finished :
          /\ heap[finished[k]].arrival = 1
          /\ heap[finished[k]].start_time = Some(1)
          /\ has_value(heap[finished[k]].finish_time)
    /\ \E p \in Procs :
          /\ has_value(heap[p].start_time)
          /\ value(heap[p].start_time) > heap[p].arrival
====
